---- MODULE Spec2Model ----
(***************************************************************************)
(* Verification model of the Jarvis-AI message bus (network/people.py,     *)
(* network/internal_communication.py, network/tasks.py) and of the         *)
(* monolithic node of main.py (Network, LLMNode): registry, task list,     *)
(* synchronous re-entrant delivery, and the per-node dialog contexts.      *)
(*                                                                         *)
(* Every operation of the program is synchronous and runs to completion    *)
(* on the caller's stack, so one action is one top-level call; the calls   *)
(* it makes (nested sends, nested receive_message) are part of the action. *)
(* Operations are written as operators from a state record to a state      *)
(* record, so that a nested call is the application of an operator.        *)
(***************************************************************************)
EXTENDS Integers, Sequences, FiniteSets, TLC

\* ------------------------------------------------------------------------
\* Bounds of the model (not program constants)
\* ------------------------------------------------------------------------

\* the bus accepts add_task while fewer than MaxTasks tasks are recorded
MaxTasks == 2

\* ------------------------------------------------------------------------
\* Text: Python str operations used by the code
\* ------------------------------------------------------------------------

None == "<None>"

\* `t in s` for strings
Contains(s, t) ==
    \E i \in 1..(Len(s) - Len(t) + 1) : SubSeq(s, i, i + Len(t) - 1) = t

Digit(n) == SubSeq("0123456789", n + 1, n + 1)

\* str(n) for n >= 0
RECURSIVE StrInt(_)
StrInt(n) == IF n < 10 THEN Digit(n) ELSE StrInt(n \div 10) \o Digit(n % 10)

\* "%02d" for 0..99
Pad2(n) == Digit(n \div 10) \o Digit(n % 10)

\* "%04d" for 0..9999
Pad4(n) == Pad2(n \div 100) \o Pad2(n % 100)

\* datetime.strftime('%Y-%m-%d') of a date [y, m, d]
StrftimeYmd(d) == Pad4(d.y) \o "-" \o Pad2(d.m) \o "-" \o Pad2(d.d)

\* a key a dict does not hold, an attribute an object does not have
Absent == "<absent>"

\* str.find, 1-based; 0 when t does not occur in s
Find(s, t) ==
    IF Contains(s, t)
    THEN CHOOSE i \in 1..(Len(s) - Len(t) + 1) :
             /\ SubSeq(s, i, i + Len(t) - 1) = t
             /\ \A j \in 1..(i - 1) : SubSeq(s, j, j + Len(t) - 1) # t
    ELSE 0

UpperCase == "ABCDEFGHIJKLMNOPQRSTUVWXYZ"
LowerCase == "abcdefghijklmnopqrstuvwxyz"

LowerChar(c) ==
    IF Contains(UpperCase, c)
    THEN SubSeq(LowerCase, Find(UpperCase, c), Find(UpperCase, c))
    ELSE c

\* str.lower
RECURSIVE Lower(_)
Lower(s) ==
    IF s = "" THEN "" ELSE LowerChar(SubSeq(s, 1, 1)) \o Lower(SubSeq(s, 2, Len(s)))

IsSpace(c) == c = " " \/ c = "\n" \/ c = "\t"

\* str.strip
RECURSIVE Strip(_)
Strip(s) ==
    IF s = "" THEN ""
    ELSE IF IsSpace(SubSeq(s, 1, 1)) THEN Strip(SubSeq(s, 2, Len(s)))
    ELSE IF IsSpace(SubSeq(s, Len(s), Len(s))) THEN Strip(SubSeq(s, 1, Len(s) - 1))
    ELSE s

IsDigits(s) == \A i \in 1..Len(s) : Contains("0123456789", SubSeq(s, i, i))

RECURSIVE ParseInt(_)
ParseInt(s) ==
    IF s = "" THEN 0
    ELSE ParseInt(SubSeq(s, 1, Len(s) - 1)) * 10
             + (Find("0123456789", SubSeq(s, Len(s), Len(s))) - 1)

\* ', '.join(seq)
RECURSIVE Join(_)
Join(seq) ==
    IF seq = <<>> THEN ""
    ELSE IF Len(seq) = 1 THEN seq[1]
    ELSE seq[1] \o ", " \o Join(Tail(seq))

\* x in seq, for a list
InList(x, seq) == \E i \in 1..Len(seq) : seq[i] = x

\* list.remove(x): the first occurrence
Remove(seq, x) ==
    LET i == CHOOSE k \in 1..Len(seq) : seq[k] = x /\ \A j \in 1..(k - 1) : seq[j] # x
    IN  SubSeq(seq, 1, i - 1) \o SubSeq(seq, i + 1, Len(seq))

\* the empty dict, and d[k] = v
EmptyDict == [k \in {} |-> Absent]

DictSet(d, k, v) == [x \in (DOMAIN d) \cup {k} |-> IF x = k THEN v ELSE d[x]]

\* d.get(k, default)
DictGet(d, k, default) == IF k \in DOMAIN d THEN d[k] ELSE default

\* `not v` for a text or None
Not(v) == v = "" \/ v = None

IsLeap(y) == (y % 4 = 0 /\ y % 100 # 0) \/ y % 400 = 0

DaysIn(y, m) ==
    IF m = 2 THEN (IF IsLeap(y) THEN 29 ELSE 28)
    ELSE IF m \in {4, 6, 9, 11} THEN 30 ELSE 31

\* a datetime is a record [y, m, d, H, M, S]; a < b
Before(a, b) ==
    LET ka == <<a.y, a.m, a.d, a.H, a.M, a.S>>
        kb == <<b.y, b.m, b.d, b.H, b.M, b.S>>
    IN  \E i \in 1..6 : ka[i] < kb[i] /\ \A j \in 1..(i - 1) : ka[j] = kb[j]

NextDay(t) ==
    IF t.d < DaysIn(t.y, t.m) THEN [t EXCEPT !.d = @ + 1]
    ELSE IF t.m < 12 THEN [t EXCEPT !.d = 1, !.m = @ + 1]
    ELSE [t EXCEPT !.d = 1, !.m = 1, !.y = @ + 1]

RECURSIVE AddDays(_, _)
AddDays(t, k) == IF k = 0 THEN t ELSE AddDays(NextDay(t), k - 1)

\* t + timedelta(minutes=n), n >= 0
AddMinutes(t, n) ==
    LET total == t.H * 60 + t.M + n
        t1 == AddDays(t, total \div 1440)
    IN  [t1 EXCEPT !.H = (total % 1440) \div 60, !.M = total % 60]

\* strftime("%H:%M")
StrftimeHM(t) == Pad2(t.H) \o ":" \o Pad2(t.M)

\* datetime.isoformat() of a naive datetime without microseconds
Isoformat(t) == StrftimeYmd(t) \o "T" \o StrftimeHM(t) \o ":" \o Pad2(t.S)

\* one numeric field of strptime: 1..width digits
NumField(s, width) == Len(s) >= 1 /\ Len(s) <= width /\ IsDigits(s)

\* datetime.strptime(text, "%Y-%m-%d %H:%M"): [ok |-> FALSE] is ValueError
Strptime(text) ==
    LET Numbers(y, m, d, H, M) ==
            IF /\ y >= 1
               /\ m \in 1..12
               /\ d \in 1..DaysIn(y, m)
               /\ H \in 0..23
               /\ M \in 0..59
            THEN [ok |-> TRUE,
                  t |-> [y |-> y, m |-> m, d |-> d, H |-> H, M |-> M, S |-> 0]]
            ELSE [ok |-> FALSE]
        Fields(ys, ms, ds, Hs, Ms) ==
            IF /\ Len(ys) = 4 /\ IsDigits(ys)
               /\ NumField(ms, 2) /\ NumField(ds, 2)
               /\ NumField(Hs, 2) /\ NumField(Ms, 2)
            THEN Numbers(ParseInt(ys), ParseInt(ms), ParseInt(ds), ParseInt(Hs),
                         ParseInt(Ms))
            ELSE [ok |-> FALSE]
        MonthDay(ys, rest, Hs, Ms) ==
            LET d2 == Find(rest, "-") IN
            IF d2 > 0
            THEN Fields(ys, SubSeq(rest, 1, d2 - 1), SubSeq(rest, d2 + 1, Len(rest)), Hs, Ms)
            ELSE [ok |-> FALSE]
        DateTime(date, time) ==
            LET d1 == Find(date, "-")
                c1 == Find(time, ":")
            IN  IF d1 > 0 /\ c1 > 0
                THEN MonthDay(SubSeq(date, 1, d1 - 1), SubSeq(date, d1 + 1, Len(date)),
                              SubSeq(time, 1, c1 - 1), SubSeq(time, c1 + 1, Len(time)))
                ELSE [ok |-> FALSE]
        sp == Find(text, " ")
    IN  IF sp > 0
        THEN DateTime(SubSeq(text, 1, sp - 1), SubSeq(text, sp + 1, Len(text)))
        ELSE [ok |-> FALSE]

\* ------------------------------------------------------------------------
\* State
\* ------------------------------------------------------------------------

VARIABLES
    nodes,      \* People.nodes: node id -> registered node object (None: no binding)
    network,    \* node object -> its `network` attribute ("unset", None or "bus")
    tasks,      \* People.tasks: the bus's task list
    next_uuid,  \* source of uuid4 values: number of Task objects constructed so far
    netlog,     \* log_network_message entries written during the latest call
    calls,      \* receive_message invocations made during the latest call
    stdout,     \* lines printed during the latest call
    raised,     \* whether the latest call raised to its caller
    view,       \* the list object last returned by get_tasks_for_node
    llm,        \* node id -> the attributes of the LLMNode of that id (main.py)
    gcal,       \* the external calendar: the events of calendar 'primary'
    gcal_next,  \* number of events the external calendar has created so far
    gmail,      \* users().messages().send calls made during the latest call
    clock,      \* datetime.now()
    added,      \* history: every task passed to add_task, in call order
    handled,    \* number of messages the nodes of main.py were handed from outside
    op,         \* the latest top-level call and its arguments
    threads     \* thread -> where it stands in a message it is handing to a node

vars == <<nodes, network, tasks, next_uuid, netlog, calls, stdout, raised, view,
          llm, gcal, gcal_next, gmail, clock, added, handled, op, threads>>

\* ------------------------------------------------------------------------
\* The bus of network/: People, Intercom, Task, with the tests' DummyNode
\* ------------------------------------------------------------------------

BusIds == {"marketing", "ceo"}
Senders == BusIds \cup {"alice"}
Objs == {"d1", "d2"}
Contents == {"hello world"}
\* the arguments of the Task constructor calls whose results are added to the bus
TaskArgs ==
    {[title |-> "Draft budget", due_date |-> [y |-> 2026, m |-> 12, d |-> 31],
      assigned_to |-> "marketing", priority |-> "high"],
     [title |-> "Write tests", due_date |-> [y |-> 2025, m |-> 5, d |-> 1],
      assigned_to |-> "marketing", priority |-> "low"],
     [title |-> "Draft budget", due_date |-> [y |-> 2025, m |-> 5, d |-> 1],
      assigned_to |-> "ceo", priority |-> "high"]}

\* The state the operations of the bus read and write, as one record.
St ==
    [nodes |-> nodes, network |-> network, tasks |-> tasks, next_uuid |-> next_uuid,
     netlog |-> netlog, calls |-> calls, stdout |-> stdout, raised |-> raised,
     view |-> view, llm |-> llm, gcal |-> gcal, gcal_next |-> gcal_next,
     gmail |-> gmail, clock |-> clock]

\* A top-level call starts with empty observations of "the latest call".
Fresh(s) ==
    [s EXCEPT !.netlog = <<>>, !.calls = <<>>, !.stdout = <<>>, !.raised = FALSE,
              !.gmail = <<>>]

\* the threads of the process: the command line loop and the web server
Threads == {"cli", "http"}

\* a thread that is handing over no message
Idle == [pc |-> "idle", node |-> "", message |-> "", current_info |-> ""]

\* The state a call or a step of a call leaves behind.
Store(s) ==
    /\ nodes' = s.nodes
    /\ network' = s.network
    /\ tasks' = s.tasks
    /\ next_uuid' = s.next_uuid
    /\ netlog' = s.netlog
    /\ calls' = s.calls
    /\ stdout' = s.stdout
    /\ raised' = s.raised
    /\ view' = s.view
    /\ llm' = s.llm
    /\ gcal' = s.gcal
    /\ gcal_next' = s.gcal_next
    /\ gmail' = s.gmail
    /\ clock' = s.clock

\* A call made while the other thread hands over nothing: it runs from its
\* first line to its last.
Commit(s) ==
    /\ Store(s)
    /\ threads' = threads

\* network.tasks.Task.__init__
Task(s, title, due_date, assigned_to, priority) ==
    [id |-> s.next_uuid + 1, title |-> title, due_date |-> due_date,
     assigned_to |-> assigned_to, priority |-> priority, completed |-> FALSE]

\* People.register_node
register_node(s, node_id, node_obj) ==
    [s EXCEPT !.nodes[node_id] = node_obj, !.network[node_obj] = "bus"]

\* variant: del self.nodes[node_id], which raises KeyError for an id that is absent
unregister_node_KeyError(s, node_id) ==
    LET node == s.nodes[node_id] IN
    IF node # None
    THEN [s EXCEPT !.nodes[node_id] = None, !.network[node] = None]
    ELSE [s EXCEPT !.raised = TRUE]

\* People.unregister_node
unregister_node(s, node_id) ==
    LET node == s.nodes[node_id] IN
    IF node # None
    THEN [s EXCEPT !.nodes[node_id] = None, !.network[node] = None]
    ELSE s

\* People.get_all_nodes: the keys of self.nodes, as a set
get_all_nodes(s) == {i \in DOMAIN s.nodes : s.nodes[i] # None}

\* Intercom._log_message
log_message(s, sender_id, recipient_id, content) ==
    [s EXCEPT !.netlog = Append(@, [from |-> sender_id, to |-> recipient_id,
                                   content |-> content])]

\* DummyNode.receive_message
dummy_receive(s, obj, content, sender_id) ==
    [s EXCEPT !.calls = Append(@, [node |-> obj, content |-> content,
                                  sender |-> sender_id])]

\* variant: a send to oneself is logged and not delivered
send_message_NoSelf(s, sender_id, recipient_id, content) ==
    LET s1 == log_message(s, sender_id, recipient_id, content)
        recipient == s1.nodes[recipient_id]
    IN  IF recipient # None
        THEN IF sender_id = recipient_id
             THEN s1
             ELSE dummy_receive(s1, recipient, content, sender_id)
        ELSE [s1 EXCEPT !.stdout =
                 Append(@, "[Intercom] Unknown recipient: " \o recipient_id \o ".")]

\* variant: self.nodes[recipient_id] instead of self.nodes.get(recipient_id), a
\* KeyError for an unknown recipient
send_message_KeyError(s, sender_id, recipient_id, content) ==
    LET s1 == log_message(s, sender_id, recipient_id, content)
        recipient == s1.nodes[recipient_id]
    IN  IF recipient # None
        THEN dummy_receive(s1, recipient, content, sender_id)
        ELSE [s1 EXCEPT !.raised = TRUE]

\* Intercom.send_message
send_message(s, sender_id, recipient_id, content) ==
    LET s1 == log_message(s, sender_id, recipient_id, content)
        recipient == s1.nodes[recipient_id]
    IN  IF recipient # None
        THEN dummy_receive(s1, recipient, content, sender_id)
        ELSE [s1 EXCEPT !.stdout =
                 Append(@, "[Intercom] Unknown recipient: " \o recipient_id \o ".")]

\* the notification text built by Intercom.add_task
TaskNotification(task) ==
    "New task assigned: " \o task.title \o ". Due: " \o StrftimeYmd(task.due_date)
        \o ". Priority: " \o task.priority \o "."

\* variant: the notification is sent whether or not the assignee is registered
add_task_AlwaysNotify(s, task) ==
    LET s1 == [s EXCEPT !.tasks = Append(@, task)] IN
    send_message(s1, "system", task.assigned_to, TaskNotification(task))

\* variant: self.tasks.insert(0, task)
add_task_Prepend(s, task) ==
    LET s1 == [s EXCEPT !.tasks = <<task>> \o @] IN
    IF s1.nodes[task.assigned_to] # None
    THEN send_message(s1, "system", task.assigned_to, TaskNotification(task))
    ELSE s1

\* Intercom.add_task
add_task(s, task) ==
    LET s1 == [s EXCEPT !.tasks = Append(@, task)] IN
    IF s1.nodes[task.assigned_to] # None
    THEN send_message(s1, "system", task.assigned_to, TaskNotification(task))
    ELSE s1

\* Intercom.get_tasks_for_node: the list comprehension builds a new list object,
\* which shares nothing with self.tasks
get_tasks_for_node(s, node_id) ==
    [list |-> SelectSeq(s.tasks, LAMBDA task : task.assigned_to = node_id),
     shares |-> FALSE]

NoOp == [name |-> "init", a |-> None, b |-> None, c |-> None]

BusInit ==
    /\ nodes = [i \in BusIds |-> None]
    /\ network = [o \in Objs |-> "unset"]
    /\ tasks = <<>>
    /\ next_uuid = 0
    /\ netlog = <<>>
    /\ calls = <<>>
    /\ stdout = <<>>
    /\ raised = FALSE
    /\ view = [list |-> <<>>, shares |-> FALSE]
    /\ llm = <<>>
    /\ gcal = <<>>
    /\ gcal_next = 0
    /\ gmail = <<>>
    /\ clock = None
    /\ added = <<>>
    /\ handled = 0
    /\ op = NoOp
    /\ threads = [t \in Threads |-> Idle]

BusRegister ==
    \E i \in BusIds, o \in Objs :
        /\ Commit(register_node(Fresh(St), i, o))
        /\ added' = added
        /\ handled' = handled
        /\ op' = [name |-> "register", a |-> i, b |-> o, c |-> None]

BusUnregister ==
    \E i \in BusIds :
        /\ Commit(unregister_node(Fresh(St), i))
        /\ added' = added
        /\ handled' = handled
        /\ op' = [name |-> "unregister", a |-> i, b |-> None, c |-> None]

BusSend ==
    \E a \in Senders, b \in BusIds, c \in Contents :
        /\ Commit(send_message(Fresh(St), a, b, c))
        /\ added' = added
        /\ handled' = handled
        /\ op' = [name |-> "send", a |-> a, b |-> b, c |-> c]

BusAddTask ==
    \E x \in TaskArgs :
        /\ Len(tasks) < MaxTasks
        /\ LET t == Task(St, x.title, x.due_date, x.assigned_to, x.priority)
               s0 == [Fresh(St) EXCEPT !.next_uuid = @ + 1]
           IN  /\ Commit(add_task(s0, t))
               /\ added' = Append(added, t)
               /\ handled' = handled
               /\ op' = [name |-> "add_task", a |-> x.assigned_to, b |-> t, c |-> None]

\* the caller keeps the returned list
BusTasksFor ==
    \E i \in BusIds :
        /\ Commit([Fresh(St) EXCEPT !.view = get_tasks_for_node(St, i)])
        /\ added' = added
        /\ handled' = handled
        /\ op' = [name |-> "tasks_for", a |-> i, b |-> None, c |-> None]

\* the caller mutates the list it was given (list.clear()); a list object that
\* is self.tasks itself would be emptied with it
BusMutateView ==
    /\ view.list # <<>>
    /\ Commit([Fresh(St) EXCEPT !.view.list = <<>>,
                                !.tasks = IF view.shares THEN <<>> ELSE @])
    /\ added' = added
    /\ handled' = handled
    /\ op' = [name |-> "mutate_view", a |-> None, b |-> None, c |-> None]

BusNext ==
    \/ BusRegister
    \/ BusUnregister
    \/ BusSend
    \/ BusAddTask
    \/ BusTasksFor
    \/ BusMutateView

SpecBus == BusInit /\ [][BusNext]_vars

\* ------------------------------------------------------------------------
\* main.py: the Network and the LLMNode
\* ------------------------------------------------------------------------

\* the nodes registered with the Network
NodeIds == {"ceo", "marketing"}

\* the role vocabulary of _handle_meeting_creation, plan_project and
\* _send_email_after_confirmation
RoleNames == {"ceo", "marketing", "engineering", "design"}

CliUser == "cli_user"

\* print(text)
Out(s, text) == [s EXCEPT !.stdout = Append(@, text)]

\* print(f"[{self.node_id}] {text}")
Say(s, n, text) == Out(s, "[" \o n \o "] " \o text)

\* print(f"[{self.node_id}] Response: {text}")
Respond(s, n, text) == Say(s, n, "Response: " \o text)

\* the record of a call of one of the node's functions or of a collaborator; arg
\* is what the reasoning service answered the function, where a property needs it
EnterWith(s, fn, n, arg) ==
    [s EXCEPT !.calls = Append(@, [fn |-> fn, node |-> n, sender |-> "", active |-> "",
                                   arg |-> arg])]

Enter(s, fn, n) == EnterWith(s, fn, n, "")

\* an exception leaves the function
Raise(s) == [s EXCEPT !.raised = TRUE]

\* variant: no dialog is ever found active
Active_Never(ctx) == FALSE

\* hasattr(self, 'meeting_context') and self.meeting_context.get('active'): a
\* node without the attribute holds the empty dict here, which every reader of
\* the attribute treats alike
Active(ctx) == DictGet(ctx, "active", FALSE)

\* secretary.utilities.logging.log_network_message
log_network_message(s, sender_id, recipient_id, content) ==
    [s EXCEPT !.netlog = Append(@, [from |-> sender_id, to |-> recipient_id,
                                   content |-> content])]

\* int(datetime.now().timestamp()) as text: one value per second of the clock
Timestamp(t) ==
    Pad4(t.y) \o Pad2(t.m) \o Pad2(t.d) \o Pad2(t.H) \o Pad2(t.M) \o Pad2(t.S)

\* str(datetime)
StrDatetime(t) == StrftimeYmd(t) \o " " \o StrftimeHM(t) \o ":" \o Pad2(t.S)

RECURSIVE Call(_, _, _)
RECURSIVE NotifyParticipants(_, _, _, _, _, _)
RECURSIVE NotifyAttendees(_, _, _, _, _, _, _)

\* LLMNode._fallback_schedule_meeting: the loop over the participants
RECURSIVE FallbackLoop(_, _, _, _, _)
FallbackLoop(s, n, project_id, meeting_info, participants) ==
    IF participants = <<>> THEN s
    ELSE LET p == Head(participants)
             s1 == IF p \in DOMAIN s.llm
                   THEN Say([s EXCEPT !.llm[p].calendar =
                                 Append(@, [project_id |-> project_id,
                                            meeting_info |-> meeting_info])],
                            n, "Notified " \o p \o " about meeting for project '"
                                   \o project_id \o "'.")
                   ELSE s
         IN  FallbackLoop(s1, n, project_id, meeting_info, Tail(participants))

\* LLMNode._fallback_schedule_meeting
_fallback_schedule_meeting(s, n, project_id, participants) ==
    LET meeting_info == "Meeting for project '" \o project_id \o "' scheduled for "
                            \o StrDatetime(AddDays(s.clock, 1))
        s1 == [Enter(s, "_fallback_schedule_meeting", n) EXCEPT !.llm[n].calendar =
                  Append(@, [project_id |-> project_id, meeting_info |-> meeting_info])]
        s2 == Say(s1, n, "Scheduled local meeting: " \o meeting_info)
    IN  FallbackLoop(s2, n, project_id, meeting_info, participants)

\* the event calendar_service.events().insert(...).execute() stores and returns
InsertEvent(s, n, body) ==
    LET id == "evt" \o Digit(s.gcal_next + 1) IN
    [Enter(s, "events.insert", n) EXCEPT
        !.gcal = Append(@, DictSet(body, "id", id)),
        !.gcal_next = @ + 1]

\* the attendees of an event body
Attendees(participants) ==
    [i \in 1..Len(participants) |-> [email |-> participants[i] \o "@example.com"]]

\* variant: the other participants get the record but nothing is sent over the network
NotifyParticipants_RecordsOnly(s, n, participants, rec, notification, o) ==
    [s EXCEPT !.llm = [p \in DOMAIN s.llm |->
                          IF p # n /\ InList(p, participants)
                          THEN [s.llm[p] EXCEPT !.calendar = Append(@, rec)]
                          ELSE s.llm[p]]]

\* LLMNode._create_calendar_meeting: the notification loop (lines 1781-1789)
NotifyParticipants(s, n, participants, rec, notification, o) ==
    IF participants = <<>> \/ s.raised THEN s
    ELSE LET p == Head(participants)
             s1 == IF p # n /\ p \in DOMAIN s.llm
                   THEN Call([s EXCEPT !.llm[p].calendar = Append(@, rec)],
                             "Network_send_message", <<n, p, notification, o>>)
                   ELSE s
         IN  NotifyParticipants(s1, n, Tail(participants), rec, notification, o)

\* LLMNode._create_calendar_meeting
_create_calendar_meeting(s, n, meeting_id, title, participants, start_datetime, end_datetime, o) ==
    LET event == [summary |-> title,
                  start |-> [dateTime |-> Isoformat(start_datetime), timeZone |-> "UTC"],
                  end |-> [dateTime |-> Isoformat(end_datetime), timeZone |-> "UTC"],
                  attendees |-> Attendees(participants)]
        meeting_date == StrftimeYmd(start_datetime)
        meeting_time == StrftimeHM(start_datetime)
        scheduled == "Meeting '" \o title \o "' scheduled for " \o meeting_date \o " at "
                         \o meeting_time \o " with " \o Join(participants)
        notification == "New meeting: '" \o title \o "' scheduled by " \o n \o " for "
                            \o meeting_date \o " at " \o meeting_time
        failed(sx) == _fallback_schedule_meeting(
                          Say([sx EXCEPT !.raised = FALSE], n,
                              "Failed to create calendar event"),
                          n, meeting_id, participants)
        Notified(s4) == IF s4.raised THEN failed(s4) ELSE s4
        Inserted(s1) ==
            LET rec == [project_id |-> meeting_id, meeting_info |-> title,
                        event_id |-> s1.gcal[Len(s1.gcal)].id]
                s2 == Say(Say(s1, n, "Meeting created: " \o rec.event_id), n, scheduled)
                s3 == [s2 EXCEPT !.llm[n].calendar = Append(@, rec)]
            IN  Notified(NotifyParticipants(s3, n, participants, rec, notification, o))
    IN  IF ~s.llm[n].calendar_service
        THEN _fallback_schedule_meeting(
                 Say(s, n, "Calendar service not available, using local scheduling"),
                 n, meeting_id, participants)
        ELSE IF ~o.calendar_ok[n] THEN failed(Enter(s, "events.insert", n))
        ELSE Inserted(InsertEvent(s, n, event))

\* the questions of _ask_for_next_meeting_info
MeetingQuestion(next_info) ==
    CASE next_info = "time" ->
             "What time should the meeting be scheduled? (Please use HH:MM format in 24-hour time, e.g., 14:30)"
      [] next_info = "date" ->
             "On what date should the meeting be scheduled? (Please use YYYY-MM-DD format, e.g., 2023-12-31)"
      [] next_info = "participants" ->
             "Who should attend the meeting? Please list all participants."
      [] next_info = "title" -> "What is the title or topic of the meeting?"
      [] OTHER -> "Please provide the " \o next_info \o " for the meeting"

\* LLMNode._construct_complete_meeting_message: a context without the key
\* 'initial_message' is a KeyError
_construct_complete_meeting_message(ctx) ==
    LET collected == ctx.collected_info
        part(key, label, end) ==
            IF key \in DOMAIN collected THEN label \o collected[key] \o end ELSE ""
    IN  IF "initial_message" \notin DOMAIN ctx
        THEN [raised |-> TRUE]
        ELSE [raised |-> FALSE,
              value |-> ctx.initial_message \o " " \o part("title", "Title: ", ". ")
                            \o part("date", "Date: ", ". ") \o part("time", "Time: ", ". ")
                            \o part("participants", "Participants: ", ".")]

\* LLMNode._ask_for_next_meeting_info
_ask_for_next_meeting_info(s, n, o) ==
    LET ctx == s.llm[n].meeting_context
        next_info == ctx.missing_info[1]
        context ==
            IF DictGet(ctx, "is_rescheduling", FALSE) THEN " for rescheduling"
            ELSE IF /\ next_info \in {"date", "time"}
                    /\ InList("date", ctx.missing_info)
                    /\ InList("time", ctx.missing_info)
                 THEN " (please ensure it's a future date and time)"
                 ELSE ""
        Handled(s1) ==
            IF s1.raised THEN s1
            ELSE [s1 EXCEPT !.llm[n].meeting_context = DictSet(@, "active", FALSE)]
        Combined(combined_message) ==
            IF combined_message.raised THEN Raise(s)
            ELSE Handled(Call(s, "_handle_meeting_creation", <<n, combined_message.value, o>>))
    IN  IF ctx.missing_info = <<>>
        THEN Combined(_construct_complete_meeting_message(ctx))
        ELSE Respond(s, n, MeetingQuestion(next_info) \o context)

\* LLMNode._start_meeting_creation
_start_meeting_creation(s, n, initial_message, missing_info, o) ==
    Call([Enter(s, "_start_meeting_creation", n) EXCEPT !.llm[n].meeting_context =
            [active |-> TRUE, initial_message |-> initial_message,
             missing_info |-> missing_info, collected_info |-> EmptyDict]],
         "_ask_for_next_meeting_info", <<n, o>>)

\* variant: the scheduling handler runs at every reply, whatever is left to ask
_continue_meeting_creation_Eager(s, n, message, sender_id, o) ==
    LET s0 == Enter(s, "_continue_meeting_creation", n)
        ctx == s.llm[n].meeting_context
    IN  IF ctx.missing_info = <<>>
        THEN [s0 EXCEPT !.llm[n].meeting_context = DictSet(@, "active", FALSE)]
        ELSE Call([s0 EXCEPT !.llm[n].meeting_context =
                      [ctx EXCEPT !.missing_info = Tail(@),
                                  !.collected_info = DictSet(@, Head(ctx.missing_info),
                                                             message)]],
                  "_handle_meeting_creation", <<n, message, o>>)

\* LLMNode._continue_meeting_creation
_continue_meeting_creation(s, n, message, sender_id, o) ==
    LET s0 == Enter(s, "_continue_meeting_creation", n)
        ctx == s.llm[n].meeting_context
        Finished(s3) ==
            Respond(s3, n,
                "Meeting "
                \o (IF DictGet(s3.llm[n].meeting_context, "is_rescheduling", FALSE)
                    THEN "rescheduled" ELSE "scheduled")
                \o " successfully with all required information.")
        Handled(s2) ==
            IF s2.raised THEN s2
            ELSE Finished([s2 EXCEPT !.llm[n].meeting_context = DictSet(@, "active", FALSE)])
        Combined(s1, combined_message) ==
            IF combined_message.raised THEN Raise(s1)
            ELSE Call(s1, "_handle_meeting_creation", <<n, combined_message.value, o>>)
        Collected(ctx1, s1) ==
            IF ctx1.missing_info # <<>> THEN Call(s1, "_ask_for_next_meeting_info", <<n, o>>)
            ELSE Handled(IF /\ DictGet(ctx1, "is_rescheduling", FALSE)
                            /\ "target_event_id" \in DOMAIN ctx1
                         THEN Call(s1, "_complete_meeting_rescheduling", <<n, o>>)
                         ELSE Combined(s1, _construct_complete_meeting_message(ctx1)))
        Answer(ctx1) == Collected(ctx1, [s0 EXCEPT !.llm[n].meeting_context = ctx1])
    IN  IF ctx.missing_info = <<>>
        THEN [s0 EXCEPT !.llm[n].meeting_context = DictSet(@, "active", FALSE)]
        ELSE Answer([ctx EXCEPT !.missing_info = Tail(@),
                                !.collected_info = DictSet(@, Head(ctx.missing_info),
                                                           message)])

\* LLMNode._extract_meeting_details: the reply of the reasoning service is
\* o.details[n], [failed |-> TRUE] for a transport or parse failure; date and
\* time get their defaults when the reply leaves them out or empty
_extract_meeting_details(s, n, o) ==
    LET reply == o.details[n]
        WithTime(result) ==
            IF Not(DictGet(result, "time", None))
            THEN DictSet(result, "time", StrftimeHM(AddMinutes(s.clock, 60)))
            ELSE result
        WithDate(result) ==
            IF Not(DictGet(result, "date", None))
            THEN DictSet(result, "date", StrftimeYmd(s.clock)) ELSE result
    IN  IF reply.failed THEN EmptyDict ELSE WithTime(WithDate(reply.json))

\* lines 841-845: the participants that name a role, lower-cased and stripped
NormalizeParticipants(ps) ==
    SelectSeq([i \in 1..Len(ps) |-> Strip(Lower(ps[i]))], LAMBDA p : p \in RoleNames)

\* lines 871-882 and 889-900: re-enter the collection of date and time
Recollect(s, n, meeting_data, o) ==
    Call([s EXCEPT !.llm[n].meeting_context =
            [active |-> TRUE,
             collected_info |-> [title |-> meeting_data.title,
                                 participants |-> meeting_data.participants],
             missing_info |-> <<"date", "time">>,
             is_rescheduling |-> FALSE]],
         "_ask_for_next_meeting_info", <<n, o>>)

\* variant: a start in the past is scheduled like any other
PastStart_Never(start_datetime, current_time) == FALSE

\* line 866: start_datetime < current_time
PastStart(start_datetime, current_time) == Before(start_datetime, current_time)

\* LLMNode._handle_meeting_creation
_handle_meeting_creation(s, n, message, o) ==
    LET s0 == EnterWith(s, "_handle_meeting_creation", n, o.details[n])
        s1 == IF o.details[n].failed THEN Say(s0, n, "Error extracting meeting details")
              ELSE s0
        return(sx) == EnterWith(sx, "_handle_meeting_creation returns", n,
                                sx.llm[n].meeting_context)
        Created(s2, scheduled) ==
            IF s2.raised
            THEN Say([s2 EXCEPT !.raised = FALSE], n, "Error creating meeting")
            ELSE Say(s2, n, scheduled)
        Schedule(meeting_data, participants, start_datetime) ==
            LET duration == DictGet(meeting_data, "duration", [int |-> 60])
                meeting_id == "meeting_" \o Timestamp(s.clock)
            IN  IF "int" \notin DOMAIN duration
                THEN Say(s1, n, "Error creating meeting")
                ELSE Created(
                         Call(s1, "_create_calendar_meeting",
                              <<n, meeting_id, meeting_data.title, participants,
                                start_datetime, AddMinutes(start_datetime, duration.int), o>>),
                         "Meeting '" \o meeting_data.title \o "' scheduled for "
                             \o meeting_data.date \o " at " \o meeting_data.time
                             \o " with " \o Join(participants))
        Parsed(meeting_data, participants, parsed) ==
            IF ~parsed.ok \/ PastStart(parsed.t, s.clock)
            THEN Recollect(
                     Respond(s1, n,
                         IF ~parsed.ok
                         THEN "I couldn't understand the date/time format. Please provide the date in YYYY-MM-DD format and time in HH:MM format."
                         ELSE "The meeting time " \o meeting_data.date \o " at "
                                  \o meeting_data.time
                                  \o " is in the past. Please provide a future date and time."),
                     n, meeting_data, o)
            ELSE Schedule(meeting_data, participants, parsed.t)
        Participants(meeting_data, valid) ==
            IF valid = <<>>
            THEN Say(s1, n, "Cannot schedule meeting: no valid participants")
            ELSE Parsed(meeting_data,
                        IF InList(n, valid) THEN valid ELSE Append(valid, n),
                        Strptime(meeting_data.date \o " " \o meeting_data.time))
        Extracted(meeting_data) ==
            LET no_title == DictGet(meeting_data, "title", "") = ""
                no_participants == DictGet(meeting_data, "participants", <<>>) = <<>>
                missing == (IF no_title THEN <<"title">> ELSE <<>>)
                               \o (IF no_participants THEN <<"participants">> ELSE <<>>)
            IN  IF missing # <<>>
                THEN Say(s1, n, "Cannot schedule meeting: missing " \o Join(missing))
                ELSE Participants(meeting_data,
                                  NormalizeParticipants(meeting_data.participants))
    IN  return(Extracted(_extract_meeting_details(s0, n, o)))

\* LLMNode.send_email: the result is [s, value]
send_email(s, n, to, subject, body, o) ==
    LET s1 == [Enter(s, "messages.send", n) EXCEPT
                  !.gmail = Append(@, [node |-> n, to |-> to, subject |-> subject,
                                       body |-> body])]
    IN  IF ~s.llm[n].gmail_service
        THEN [s |-> Say(s, n, n \o " Gmail service not available, can't send email"),
              value |-> FALSE]
        ELSE IF o.send[n]
        THEN [s |-> Say(s1, n, "Email sent successfully with message ID: msg"
                                   \o Digit(Len(s1.gmail))),
              value |-> TRUE]
        ELSE [s |-> Say(s1, n, "Error sending email"), value |-> FALSE]

\* body.split('\n')[0]
FirstLine(body) ==
    IF Contains(body, "\n") THEN SubSeq(body, 1, Find(body, "\n") - 1) ELSE body

\* text.replace(' ', '')
RECURSIVE RemoveSpaces(_)
RemoveSpaces(text) ==
    IF text = "" THEN ""
    ELSE (IF SubSeq(text, 1, 1) = " " THEN "" ELSE SubSeq(text, 1, 1))
             \o RemoveSpaces(SubSeq(text, 2, Len(text)))

\* variant: the email goes out as collected and the dialog stays open for
\* another attempt
_send_email_after_confirmation_KeepsOpen(s, n, o) ==
    Respond(send_email(Enter(s, "_send_email_after_confirmation", n), n,
                       s.llm[n].email_context.collected_info.recipient,
                       s.llm[n].email_context.collected_info.subject,
                       s.llm[n].email_context.collected_info.body, o).s,
            n, "There was an error sending your email. Please try again later.")

\* LLMNode._send_email_after_confirmation
_send_email_after_confirmation(s, n, o) ==
    LET s0 == Enter(s, "_send_email_after_confirmation", n)
        collected == s.llm[n].email_context.collected_info
        recipient == DictGet(collected, "recipient", "")
        subject == DictGet(collected, "subject", "")
        body == DictGet(collected, "body", "")
        first_line == FirstLine(body)
        subject1 == IF subject # "" THEN subject
                    ELSE IF Len(first_line) > 5 /\ Len(first_line) < 80 THEN first_line
                    ELSE "Message from " \o n
        Sent(recipient1, sent) ==
            IF sent.value
            THEN Respond(sent.s, n, "Email sent successfully to " \o recipient1 \o "!")
            ELSE Respond(sent.s, n,
                         "There was an error sending your email. Please try again later.")
        Send(recipient1) == Sent(recipient1, send_email(s0, n, recipient1, subject1, body, o))
    IN  IF recipient = "" \/ body = ""
        THEN [Respond(s0, n, "Cannot send email - missing recipient or body content.")
                 EXCEPT !.llm[n].email_context = DictSet(@, "active", FALSE)]
        ELSE [Send(IF Contains(recipient, "@") THEN recipient
                   ELSE IF Lower(recipient) \in RoleNames
                   THEN Lower(recipient) \o "@example.com"
                   ELSE Lower(RemoveSpaces(recipient)) \o "@example.com")
                 EXCEPT !.llm[n].email_context = DictSet(@, "active", FALSE)]

\* variant: the preview is shown and the dialog stays in the collecting state
_show_email_preview_Collecting(s, n) ==
    Respond(s, n, " Email Preview \n\n" \o "Would you like me to send this email? (Yes/No)")

\* variant: an empty subject is shown as it is
_show_email_preview_BlankSubject(s, n) ==
    LET collected == s.llm[n].email_context.collected_info
        preview == " Email Preview \n\n" \o "To: " \o DictGet(collected, "recipient", "")
                       \o "\n" \o "Subject: " \o DictGet(collected, "subject", "")
                       \o "\n" \o "---\n" \o DictGet(collected, "body", "") \o "\n"
                       \o "---\n\n" \o "Would you like me to send this email? (Yes/No)"
    IN  Respond([s EXCEPT !.llm[n].email_context = DictSet(@, "state", "confirming")],
                n, preview)

\* variant: the dialog moves on to the confirmation without showing the preview
_show_email_preview_Silent(s, n) ==
    [s EXCEPT !.llm[n].email_context = DictSet(@, "state", "confirming")]

\* LLMNode._show_email_preview
_show_email_preview(s, n) ==
    LET collected == s.llm[n].email_context.collected_info
        recipient == DictGet(collected, "recipient", "")
        subject == DictGet(collected, "subject", "")
        body == DictGet(collected, "body", "")
        preview == " Email Preview \n\n" \o "To: " \o recipient \o "\n"
                       \o "Subject: " \o (IF subject = "" THEN "(No subject)" ELSE subject)
                       \o "\n" \o "---\n" \o body \o "\n" \o "---\n\n"
                       \o "Would you like me to send this email? (Yes/No)"
    IN  Respond([s EXCEPT !.llm[n].email_context = DictSet(@, "state", "confirming")],
                n, preview)

\* the questions of _ask_for_next_email_info
EmailQuestion(next_info, missing_info) ==
    CASE next_info = "recipient" ->
             "To whom would you like to send this email? (Please provide an email address or name)"
      [] next_info = "subject" ->
             IF InList("body", missing_info)
             THEN "What should be the subject and body of your email? You can provide both by saying something like 'The subject is X, body is Y'."
             ELSE "What should be the subject of your email?"
      [] next_info = "body" ->
             "Please write the content of your email. You can include multiple paragraphs."
      [] OTHER -> "Please provide the " \o next_info \o " for the email"

\* LLMNode._ask_for_next_email_info
_ask_for_next_email_info(s, n) ==
    LET missing_info == s.llm[n].email_context.missing_info IN
    IF missing_info = <<>>
    THEN _show_email_preview(s, n)
    ELSE Respond(s, n, EmailQuestion(missing_info[1], missing_info))

\* LLMNode._start_email_composition
_start_email_composition(s, n, initial_message, missing_info, email_data) ==
    _ask_for_next_email_info(
        [Enter(s, "_start_email_composition", n) EXCEPT !.llm[n].email_context =
            [active |-> TRUE, initial_message |-> initial_message,
             missing_info |-> missing_info,
             collected_info |-> [recipient |-> DictGet(email_data, "recipient", ""),
                                 subject |-> DictGet(email_data, "subject", ""),
                                 body |-> DictGet(email_data, "body", "")],
             state |-> "collecting_info"]],
        n)

positive_indicators ==
    {"yes", "yeah", "yep", "yup", "sure", "ok", "okay", "fine", "send", "send it",
     "send email", "send the email", "confirm", "confirmed", "confirmation", "approve",
     "approved", "go ahead", "proceed", "do it", "looks good"}

negative_indicators ==
    {"no", "nope", "don't", "do not", "cancel", "stop", "abort", "don't send",
     "do not send", "wait", "hold on", "nevermind"}

\* variant: the positive indicators are looked for first
_is_confirmation_positive_First(message) ==
    \E indicator \in positive_indicators : Contains(Strip(Lower(message)), indicator)

\* LLMNode._is_confirmation_positive
_is_confirmation_positive(message) ==
    LET message_lower == Strip(Lower(message)) IN
    IF \E indicator \in negative_indicators : Contains(message_lower, indicator)
    THEN FALSE
    ELSE \E indicator \in positive_indicators : Contains(message_lower, indicator)

Quotes == {"\"", "'"}

DropFirstIn(text, chars) ==
    IF text # "" /\ SubSeq(text, 1, 1) \in chars THEN SubSeq(text, 2, Len(text)) ELSE text

DropLastIn(text, chars) ==
    IF text # "" /\ SubSeq(text, Len(text), Len(text)) \in chars
    THEN SubSeq(text, 1, Len(text) - 1) ELSE text

\* str.lstrip
RECURSIVE LStrip(_)
LStrip(text) ==
    IF text # "" /\ IsSpace(SubSeq(text, 1, 1)) THEN LStrip(SubSeq(text, 2, Len(text)))
    ELSE text

\* the least position of a set of positions of str.find, 0 for none
FirstHit(positions) ==
    IF positions \ {0} = {} THEN 0
    ELSE CHOOSE p \in positions \ {0} : \A q \in positions \ {0} : p <= q

\* line 2613: re.search of
\*   (?i)the\s+subject\s+is\s+["']?(.*?)["']?,?\s+(?:the\s+)?body(?:\s+message)?\s+is\s+["']?(.*?)["']?$
\* for messages whose words are one blank apart: the lazy first group ends at
\* the first separator, which takes a quote and a comma before it; the second
\* group runs to the end of the text, less a closing quote
SubjectBodyPattern(message) ==
    LET seps == {" body is ", " the body is ", " body message is ",
                 " the body message is "}
        Groups(before, g1, g2) ==
            IF ~Contains(before, "\n") /\ ~Contains(g2, "\n")
            THEN [matched |-> TRUE, subject |-> Strip(g1), body |-> Strip(g2)]
            ELSE [matched |-> FALSE]
        Split(R, p, sep) ==
            Groups(SubSeq(R, 1, p - 1),
                   DropLastIn(DropLastIn(DropFirstIn(LStrip(SubSeq(R, 1, p - 1)), Quotes),
                                         {","}),
                              Quotes),
                   DropLastIn(DropLastIn(DropFirstIn(LStrip(SubSeq(R, p + Len(sep), Len(R))),
                                                     Quotes),
                                         {"\n"}),
                              Quotes))
        At(R, p) ==
            IF p > 0 THEN Split(R, p, CHOOSE x \in seps : Find(Lower(R), x) = p)
            ELSE [matched |-> FALSE]
        After(R) == At(R, FirstHit({Find(Lower(R), x) : x \in seps}))
        a == Find(Lower(message), "the subject is ")
    IN  IF a > 0 THEN After(SubSeq(message, a + 15, Len(message)))
        ELSE [matched |-> FALSE]

\* lines 2620-2629: the text has "subject:" and "body:"; it is split at the first
\* "body:", and the subject runs from "subject:" to the first comma or newline
SubjectColonPattern(message) ==
    LET Subject(after, body_part) ==
            LET stop == FirstHit({Find(after, ","), Find(after, "\n")}) IN
            [matched |-> TRUE,
             subject |-> Strip(IF stop = 0 THEN after ELSE SubSeq(after, 1, stop - 1)),
             body |-> body_part]
        Parts(subject_part, body_part) ==
            LET a == Find(Lower(subject_part), "subject:") IN
            IF a > 0
            THEN Subject(SubSeq(subject_part, a + 8, Len(subject_part)), body_part)
            ELSE [matched |-> FALSE]
        Low(low) ==
            LET b == Find(low, "body:") IN
            IF Contains(low, "subject:") /\ b > 0
            THEN Parts(SubSeq(message, 1, b - 1),
                       Strip(SubSeq(message, b + 5, Len(message))))
            ELSE [matched |-> FALSE]
    IN  Low(Lower(message))

\* LLMNode._parse_subject_and_body: the reply of the reasoning service is
\* o.parse[n]; the result is the dict the function returns
_parse_subject_and_body(message, n, o) ==
    LET Patterns(first, second) ==
            IF first.matched THEN [subject |-> first.subject, body |-> first.body]
            ELSE IF second.matched THEN [subject |-> second.subject, body |-> second.body]
            ELSE IF o.parse[n].failed THEN [subject |-> message, body |-> ""]
            ELSE o.parse[n].json
    IN  Patterns(SubjectBodyPattern(message), SubjectColonPattern(message))

\* variant: whatever the reply to the preview, the email goes out
Confirmation_AlwaysSend(s, n, message, o) == _send_email_after_confirmation(s, n, o)

\* lines 2552-2558 and 2602-2608: the reply to the preview
Confirmation(s, n, message, o) ==
    IF _is_confirmation_positive(message)
    THEN _send_email_after_confirmation(s, n, o)
    ELSE [Respond(s, n, "Email sending cancelled. You can start over or modify your request.")
             EXCEPT !.llm[n].email_context = DictSet(@, "active", FALSE)]

\* LLMNode._continue_email_composition
_continue_email_composition(s, n, message, sender_id, o) ==
    LET s0 == Enter(s, "_continue_email_composition", n)
        ctx == s.llm[n].email_context
        current_state == DictGet(ctx, "state", "")
        current_info == Head(ctx.missing_info)
        rest == Tail(ctx.missing_info)
        Asking(s1) ==
            IF s1.llm[n].email_context.missing_info # <<>>
            THEN _ask_for_next_email_info(s1, n)
            ELSE _show_email_preview(s1, n)
        Collect(collected, missing_info) ==
            Asking([s0 EXCEPT !.llm[n].email_context =
                      [ctx EXCEPT !.missing_info = missing_info,
                                  !.collected_info = collected]])
        Subject(both, parsed) ==
            LET takes_body == both /\ DictGet(parsed, "body", "") # "" /\ InList("body", rest)
                c1 == DictSet(ctx.collected_info, "subject",
                              DictGet(parsed, "subject", message))
            IN  IF ~both THEN Collect(DictSet(ctx.collected_info, "subject", message), rest)
                ELSE IF takes_body
                THEN Collect(DictSet(c1, "body", parsed.body), Remove(rest, "body"))
                ELSE Collect(c1, rest)
        Low(low) ==
            Subject(Contains(low, "body:") \/ Contains(low, "message:")
                        \/ Contains(low, "content:"),
                    _parse_subject_and_body(message, n, o))
    IN  IF ~DictGet(ctx, "active", FALSE) THEN s0
        ELSE IF DictGet(ctx, "missing_info", <<>>) = <<>>
        THEN IF current_state = "confirming" THEN Confirmation(s0, n, message, o) ELSE s0
        ELSE IF current_state = "collecting_info"
        THEN IF current_info = "subject" THEN Low(Lower(message))
             ELSE Collect(DictSet(ctx.collected_info, current_info, message), rest)
        ELSE IF current_state = "confirming" THEN Confirmation(s0, n, message, o)
        ELSE s0

\* datetime.fromisoformat of "YYYY-MM-DDTHH:MM:SS"
FromIso(text) == Strptime(SubSeq(text, 1, 10) \o " " \o SubSeq(text, 12, 16)).t

\* days since 1970-01-01 of a date
DaysFromCivil(t) ==
    LET y == IF t.m <= 2 THEN t.y - 1 ELSE t.y
        era == y \div 400
        yoe == y - era * 400
        mp == (t.m + 9) % 12
        doy == (153 * mp + 2) \div 5 + t.d - 1
        doe == yoe * 365 + yoe \div 4 - yoe \div 100 + doy
    IN  era * 146097 + doe - 719468

\* (b - a).total_seconds() / 60 for datetimes on whole minutes
MinutesBetween(a, b) ==
    (DaysFromCivil(b) - DaysFromCivil(a)) * 1440 + (b.H * 60 + b.M) - (a.H * 60 + a.M)

MonthNames ==
    <<"January", "February", "March", "April", "May", "June", "July", "August",
      "September", "October", "November", "December">>

\* strftime("%B %d, %Y")
StrftimeBdY(t) == MonthNames[t.m] \o " " \o Pad2(t.d) \o ", " \o Pad4(t.y)

\* strftime("%I:%M %p")
StrftimeIMp(t) ==
    Pad2(IF t.H % 12 = 0 THEN 12 ELSE t.H % 12) \o ":" \o Pad2(t.M)
        \o (IF t.H < 12 THEN " AM" ELSE " PM")

\* email.split('@')[0]
LocalPart(email) ==
    IF Contains(email, "@") THEN SubSeq(email, 1, Find(email, "@") - 1) ELSE email

\* event.get('start', {}).get('dateTime', event.get('start', {}).get('date'))
EventStart(event) ==
    LET start == DictGet(event, "start", EmptyDict) IN
    DictGet(start, "dateTime", DictGet(start, "date", None))

\* the end of an event as the calendar knows it
EventEnded(event, now) ==
    LET end == DictGet(event, "end", EmptyDict) IN
    IF "dateTime" \in DOMAIN end \/ "date" \in DOMAIN end
    THEN Before(Strptime(IF "dateTime" \in DOMAIN end
                         THEN SubSeq(end.dateTime, 1, 10) \o " " \o SubSeq(end.dateTime, 12, 16)
                         ELSE end.date \o " 00:00").t,
                now)
    ELSE FALSE

\* the start by which events().list(orderBy='startTime') orders
StartKey(event) ==
    LET start == DictGet(event, "start", EmptyDict) IN
    IF "dateTime" \in DOMAIN start \/ "date" \in DOMAIN start
    THEN Strptime(IF "dateTime" \in DOMAIN start
                  THEN SubSeq(start.dateTime, 1, 10) \o " " \o SubSeq(start.dateTime, 12, 16)
                  ELSE start.date \o " 00:00").t
    ELSE [y |-> 0, m |-> 1, d |-> 1, H |-> 0, M |-> 0, S |-> 0]

RECURSIVE SortByStart(_)
SortByStart(events) ==
    IF events = <<>> THEN <<>>
    ELSE LET Place(sorted, e, keys, key) ==
                 LET k == Cardinality({i \in 1..Len(sorted) : ~Before(key, keys[i])})
                 IN  SubSeq(sorted, 1, k) \o <<e>> \o SubSeq(sorted, k + 1, Len(sorted))
             Insert(sorted, e) ==
                 Place(sorted, e, [i \in 1..Len(sorted) |-> StartKey(sorted[i])], StartKey(e))
         IN  Insert(SortByStart(SubSeq(events, 1, Len(events) - 1)), events[Len(events)])

\* calendar_service.events().list(timeMin=now, maxResults=limit, singleEvents=True,
\* orderBy='startTime').execute().get('items', [])
ListUpcoming(s, limit) ==
    LET AtMost(items) == SubSeq(items, 1, IF Len(items) < limit THEN Len(items) ELSE limit)
    IN  AtMost(SortByStart(SelectSeq(s.gcal, LAMBDA e : ~EventEnded(e, s.clock))))

\* variant: the local records keep their text
UpdateInfo_Keep(calendar, event_id, info) == calendar

\* the local records of an event get a new meeting_info
UpdateInfo(calendar, event_id, info) ==
    [i \in 1..Len(calendar) |->
        IF DictGet(calendar[i], "event_id", None) = event_id
        THEN DictSet(calendar[i], "meeting_info", info)
        ELSE calendar[i]]

\* the loops of lines 1250-1266 and 1862-1877 over the attendees of an event
NotifyAttendees(s, n, attendees, event_id, info, notification, o) ==
    IF attendees = <<>> \/ s.raised THEN s
    ELSE LET attendee_id == LocalPart(DictGet(Head(attendees), "email", ""))
             s1 == IF attendee_id \in DOMAIN s.llm
                   THEN Call([s EXCEPT !.llm[attendee_id].calendar =
                                          UpdateInfo(@, event_id, info)],
                             "Network_send_message", <<n, attendee_id, notification, o>>)
                   ELSE s
         IN  NotifyAttendees(s1, n, Tail(attendees), event_id, info, notification, o)

\* calendar_service.events().update(eventId=event_id, body=event).execute()
UpdateEvent(s, n, event_id, event) ==
    [Enter(s, "events.update", n) EXCEPT
        !.gcal = [i \in 1..Len(@) |-> IF @[i].id = event_id THEN event ELSE @[i]]]

\* lines 1879-1881 and 1268-1270
RescheduleError(s, n, text) ==
    Respond(Say([s EXCEPT !.raised = FALSE], n, text), n,
            "There was an error rescheduling the meeting. Please try again.")

\* LLMNode._complete_meeting_rescheduling
_complete_meeting_rescheduling(s, n, o) ==
    LET s0 == Enter(s, "_complete_meeting_rescheduling", n)
        ctx == s.llm[n].meeting_context
        new_date == DictGet(ctx.collected_info, "date", "None")
        new_time == DictGet(ctx.collected_info, "time", "None")
        target_event_id == ctx.target_event_id
        found == {i \in 1..Len(s.gcal) : s.gcal[i].id = target_event_id}
        failure(sx) == RescheduleError(sx, n, "Error completing meeting rescheduling")
        Notified(s4) == IF s4.raised THEN failure(s4) ELSE s4
        Updated(s1, updated_event, formatted_time, formatted_date) ==
            LET meeting_title == DictGet(updated_event, "summary", "Untitled meeting")
                info == meeting_title \o " (Rescheduled to " \o formatted_date \o " at "
                            \o formatted_time \o ")"
                s2 == Respond(UpdateEvent(s1, n, target_event_id, updated_event), n,
                              "Meeting '" \o meeting_title \o "' has been rescheduled to "
                                  \o formatted_date \o " at " \o formatted_time \o ".")
                s3 == [s2 EXCEPT !.llm[n].calendar = UpdateInfo(@, target_event_id, info)]
                notification ==
                    "Your meeting '" \o meeting_title \o "' has been rescheduled by " \o n
                        \o ".\n" \o "New date: " \o formatted_date \o "\n"
                        \o "New time: " \o formatted_time
            IN  Notified(NotifyAttendees(s3, n, DictGet(updated_event, "attendees", <<>>),
                                         target_event_id, info, notification, o))
        Update(s1, event, new_start_datetime, original_duration) ==
            Updated(s1,
                    [event EXCEPT
                        !.start = DictSet(@, "dateTime", Isoformat(new_start_datetime)),
                        !["end"] = DictSet(@, "dateTime",
                                           Isoformat(AddMinutes(new_start_datetime,
                                                                original_duration)))],
                    StrftimeIMp(new_start_datetime), StrftimeBdY(new_start_datetime))
        Adjusted(s1, event, new_start_datetime) ==
            IF /\ "dateTime" \in DOMAIN DictGet(event, "start", EmptyDict)
               /\ "dateTime" \in DOMAIN DictGet(event, "end", EmptyDict)
            THEN Update(s1, event, new_start_datetime,
                        MinutesBetween(FromIso(event.start.dateTime),
                                       FromIso(event["end"].dateTime)))
            ELSE failure(s1)
        Parsed(event, parsed, tomorrow) ==
            IF ~parsed.ok THEN failure(s0)
            ELSE IF Before(parsed.t, s.clock)
            THEN Adjusted(Say(s0, n, "The provided time is still in the past. Adjusting to tomorrow at the same time."),
                          event,
                          [y |-> tomorrow.y, m |-> tomorrow.m, d |-> tomorrow.d,
                           H |-> parsed.t.H, M |-> parsed.t.M, S |-> 0])
            ELSE Adjusted(s0, event, parsed.t)
    IN  IF ~Active(ctx) THEN s0
        ELSE IF ~o.calendar_ok[n] \/ found = {}
        THEN failure(Enter(s0, "events.get", n))
        ELSE Parsed(s.gcal[CHOOSE i \in found : TRUE],
                    Strptime(new_date \o " " \o new_time), AddDays(s.clock, 1))

\* a node that keeps the records of a cancelled event
DropEvent_Keep(calendar, event_id) == calendar

\* the local records of an event are dropped
DropEvent(calendar, event_id) ==
    SelectSeq(calendar, LAMBDA m : DictGet(m, "event_id", None) # event_id)

\* lines 1704-1714: the attendees of a cancelled event
RECURSIVE NotifyCancelled(_, _, _, _, _)
NotifyCancelled(s, n, attendees, event, o) ==
    IF attendees = <<>> \/ s.raised THEN s
    ELSE LET attendee == LocalPart(DictGet(Head(attendees), "email", ""))
             s1 == IF attendee \in DOMAIN s.llm
                   THEN Call([s EXCEPT !.llm[attendee].calendar = DropEvent(@, event.id)],
                             "Network_send_message",
                             <<n, attendee,
                               "Meeting '" \o DictGet(event, "summary", "None")
                                   \o "' has been cancelled by " \o n,
                               o>>)
                   ELSE s
         IN  NotifyCancelled(s1, n, Tail(attendees), event, o)

\* line 1677: the title filter rejects the event
TitleRejects(title_filter, event) ==
    /\ title_filter # ""
    /\ ~Contains(Lower(DictGet(event, "summary", "")), Lower(title_filter))

\* lines 1681-1685: the participants filter rejects the event
ParticipantsReject(participants_filter, event) ==
    LET attendees == DictGet(event, "attendees", <<>>)
        event_attendees == {Lower(LocalPart(DictGet(attendees[i], "email", ""))) :
                               i \in 1..Len(attendees)}
    IN  /\ participants_filter # <<>>
        /\ ~\E i \in 1..Len(participants_filter) :
               Lower(participants_filter[i]) \in event_attendees

\* lines 1688-1691: the date filter rejects the event
DateRejects(date_filter, event) ==
    /\ date_filter # ""
    /\ EventStart(event) # None
    /\ ~Contains(EventStart(event), date_filter)

\* lines 1674-1693
should_cancel(cancel_data, event) ==
    /\ ~TitleRejects(DictGet(cancel_data, "title", ""), event)
    /\ ~ParticipantsReject(DictGet(cancel_data, "with_participants", <<>>), event)
    /\ ~DateRejects(DictGet(cancel_data, "date", ""), event)

\* lines 1673-1717: the loop over the events; the result is [s, count]
RECURSIVE CancelLoop(_, _, _, _, _, _)
CancelLoop(s, n, events, cancel_data, cancelled_count, o) ==
    IF events = <<>> \/ s.raised THEN [s |-> s, count |-> cancelled_count]
    ELSE LET event == Head(events)
             s1 == [Enter(s, "events.delete", n) EXCEPT
                       !.gcal = SelectSeq(@, LAMBDA e : e.id # event.id),
                       !.llm[n].calendar = DropEvent(@, event.id)]
             Notified(s2) ==
                 IF s2.raised THEN [s |-> s2, count |-> cancelled_count]
                 ELSE CancelLoop(Say(s2, n, "Cancelled meeting: "
                                                \o DictGet(event, "summary", "None")),
                                 n, Tail(events), cancel_data, cancelled_count + 1, o)
         IN  IF ~should_cancel(cancel_data, event)
             THEN CancelLoop(s, n, Tail(events), cancel_data, cancelled_count, o)
             ELSE Notified(NotifyCancelled(s1, n, DictGet(event, "attendees", <<>>),
                                           event, o))

\* LLMNode._handle_meeting_cancellation: the reply of the reasoning service is
\* o.cancel
_handle_meeting_cancellation(s, n, message, o) ==
    LET s0 == EnterWith(s, "_handle_meeting_cancellation", n, o.cancel)
        error(sx) == Say([sx EXCEPT !.raised = FALSE], n, "Error cancelling meeting")
        Cancelled(done) ==
            IF done.s.raised THEN error(done.s)
            ELSE IF done.count = 0
            THEN Say(done.s, n, "No meetings found matching the cancellation criteria")
            ELSE Say(done.s, n, "Cancelled " \o Digit(done.count) \o " meeting(s)")
        Events(events) ==
            IF events = <<>>
            THEN Say(Enter(s0, "events.list", n), n, "No upcoming meetings found to cancel")
            ELSE Cancelled(CancelLoop(Enter(s0, "events.list", n), n, events,
                                      o.cancel.json, 0, o))
    IN  IF ~s.llm[n].calendar_service
        THEN Say(s0, n, "Calendar service not available, can't cancel meetings")
        ELSE IF o.cancel.failed THEN error(s0)
        ELSE IF ~o.calendar_ok[n] THEN error(Enter(s0, "events.list", n))
        ELSE Events(ListUpcoming(s0, 10))

\* LLMNode._handle_list_meetings: one line per upcoming event; an event without
\* a start or without a summary is a KeyError, which the function reports
RECURSIVE ListLoop(_, _, _)
ListLoop(s, n, events) ==
    IF events = <<>> \/ s.raised THEN s
    ELSE LET event == Head(events)
             attendees == DictGet(event, "attendees", <<>>)
             names == [i \in 1..Len(attendees) |->
                          LocalPart(DictGet(attendees[i], "email", ""))]
             Line(start_time) ==
                 "  - " \o event.summary \o " on " \o StrftimeYmd(start_time) \o " at "
                     \o StrftimeHM(start_time) \o " with " \o Join(names)
         IN  IF "start" \notin DOMAIN event \/ "summary" \notin DOMAIN event
                \/ EventStart(event) = None
             THEN Raise(s)
             ELSE ListLoop(Say(s, n, Line(StartKey(event))), n, Tail(events))

_handle_list_meetings(s, n, o) ==
    LET s0 == Enter(s, "_handle_list_meetings", n)
        service == s.llm[n].calendar_service
        s1 == IF service THEN s0
              ELSE Say(s0, n, "Calendar service not available, showing local meetings only")
        error(sx) == Say([sx EXCEPT !.raised = FALSE], n, "Error listing meetings")
        Listed(listed) == IF listed.raised THEN error(listed) ELSE listed
        Events(events) ==
            IF events = <<>>
            THEN Say(Enter(s1, "events.list", n), n, "No upcoming meetings found.")
            ELSE Listed(ListLoop(Say(Enter(s1, "events.list", n), n, "Upcoming meetings:"),
                                 n, events))
    IN  IF ~service /\ s.llm[n].calendar = <<>> THEN Say(s1, n, "No meetings scheduled.")
        ELSE IF ~service \/ ~o.calendar_ok[n] THEN error(s1)
        ELSE Events(ListUpcoming(s1, 10))

\* str.split(): the words of a text
RECURSIVE Words(_)
Words(text) ==
    LET Cut(t, cut) ==
            IF t = "" THEN <<>>
            ELSE IF cut = 0 THEN <<t>>
            ELSE <<SubSeq(t, 1, cut - 1)>> \o Words(SubSeq(t, cut + 1, Len(t)))
        Stripped(t) == Cut(t, FirstHit({Find(t, " "), Find(t, "\n"), Find(t, "\t")}))
    IN  Stripped(Strip(text))

\* lines 1127-1152: the score of an event; an event without 'start' is a KeyError
\* when an original date was given
Score(event, meeting_identifier, original_date) ==
    LET event_title == Lower(DictGet(event, "summary", ""))
        attendees == DictGet(event, "attendees", <<>>)
        start == event.start
        start_time == DictGet(start, "dateTime", DictGet(start, "date", ""))
        Title(words) ==
            IF Contains(event_title, meeting_identifier) THEN 3
            ELSE IF \E i \in 1..Len(words) : Contains(event_title, words[i]) THEN 1
            ELSE 0
    IN  Title(Words(meeting_identifier))
        + (IF \E i \in 1..Len(attendees) :
                  Contains(Lower(DictGet(attendees[i], "email", "")), meeting_identifier)
           THEN 2 ELSE 0)
        + (IF original_date # "" /\ Contains(start_time, original_date) THEN 4 ELSE 0)

\* lines 1123-1157: the first event of the greatest score, 0 for none
RECURSIVE BestMatch(_, _, _, _, _, _)
BestMatch(events, i, meeting_identifier, original_date, best, best_match_score) ==
    IF i > Len(events) THEN [index |-> best, score |-> best_match_score]
    ELSE LET Scored(score) ==
                 IF score > best_match_score
                 THEN BestMatch(events, i + 1, meeting_identifier, original_date, i, score)
                 ELSE BestMatch(events, i + 1, meeting_identifier, original_date, best,
                                best_match_score)
         IN  Scored(Score(events[i], meeting_identifier, original_date))

\* lines 1178-1190 and 1196-1208
RecollectReschedule(s, n, target_event, o) ==
    Call([s EXCEPT !.llm[n].meeting_context =
            [active |-> TRUE,
             collected_info |-> [title |-> DictGet(target_event, "summary", "Meeting"),
                                 participants |-> <<>>],
             missing_info |-> <<"date", "time">>,
             is_rescheduling |-> TRUE,
             target_event_id |-> target_event.id,
             target_event |-> target_event]],
         "_ask_for_next_meeting_info", <<n, o>>)

\* LLMNode._handle_meeting_rescheduling: the reply of the reasoning service is
\* o.reschedule
_handle_meeting_rescheduling(s, n, message, o) ==
    LET s0 == Enter(s, "_handle_meeting_rescheduling", n)
        data == o.reschedule.json
        original_date == DictGet(data, "original_date", "")
        new_date == DictGet(data, "new_date", "")
        new_time == IF DictGet(data, "new_time", "") = "" THEN "10:00" ELSE data.new_time
        given == DictGet(data, "new_duration", [bad |-> ""])
        new_duration == IF "int" \in DOMAIN given THEN given.int ELSE 0
        s1 == Enter(s0, "events.list", n)
        general(sx) == Say([sx EXCEPT !.raised = FALSE], n,
                           "General error in meeting rescheduling")
        Notified(s4) ==
            IF s4.raised THEN RescheduleError(s4, n, "Error updating the meeting") ELSE s4
        Updated(target_event, updated_event, formatted_time, formatted_date, duration_to_use) ==
            LET meeting_title == DictGet(updated_event, "summary", "Untitled meeting")
                info == meeting_title \o " (Rescheduled to " \o new_date \o " at "
                            \o formatted_time \o ")"
                s2 == Respond(UpdateEvent(s1, n, target_event.id, updated_event), n,
                              "Meeting '" \o meeting_title \o "' has been rescheduled to "
                                  \o formatted_date \o " at " \o formatted_time \o ".")
                s3 == [s2 EXCEPT !.llm[n].calendar = UpdateInfo(@, target_event.id, info)]
                notification ==
                    "Your meeting '" \o meeting_title \o "' has been rescheduled by " \o n
                        \o ".\n" \o "New date: " \o formatted_date \o "\n"
                        \o "New time: " \o formatted_time \o "\n"
                        \o "Duration: " \o StrInt(duration_to_use) \o " minutes"
            IN  Notified(NotifyAttendees(s3, n, DictGet(updated_event, "attendees", <<>>),
                                         target_event.id, info, notification, o))
        Update(target_event, new_start_datetime, duration_to_use) ==
            Updated(target_event,
                    [target_event EXCEPT
                        !.start = DictSet(@, "dateTime", Isoformat(new_start_datetime)),
                        !["end"] = DictSet(@, "dateTime",
                                           Isoformat(AddMinutes(new_start_datetime,
                                                                duration_to_use)))],
                    StrftimeIMp(new_start_datetime), StrftimeBdY(new_start_datetime),
                    duration_to_use)
        Parsed(target_event, parsed) ==
            IF ~parsed.ok \/ Before(parsed.t, s.clock)
            THEN RecollectReschedule(
                     Respond(s1, n,
                         IF ~parsed.ok
                         THEN "I couldn't understand the date/time format. Please provide the date in YYYY-MM-DD format and time in HH:MM format."
                         ELSE "The rescheduled time " \o new_date \o " at " \o new_time
                                  \o " is in the past. Please provide a future date and time."),
                     n, target_event, o)
            ELSE IF ~(/\ "dateTime" \in DOMAIN DictGet(target_event, "start", EmptyDict)
                      /\ "dateTime" \in DOMAIN DictGet(target_event, "end", EmptyDict))
            THEN RescheduleError(s1, n, "Error updating the meeting")
            ELSE Update(target_event, parsed.t,
                        IF new_duration > 0 THEN new_duration
                        ELSE MinutesBetween(FromIso(target_event.start.dateTime),
                                            FromIso(target_event["end"].dateTime)))
        Matched(meeting_identifier, events, match) ==
            IF match.score < 1
            THEN Say(s1, n, "Could not find a meeting matching '" \o meeting_identifier \o "'")
            ELSE Parsed(events[match.index], Strptime(new_date \o " " \o new_time))
        Events(meeting_identifier, events) ==
            IF events = <<>> THEN Say(s1, n, "No upcoming meetings found to reschedule")
            ELSE IF original_date # ""
                    /\ \E i \in 1..Len(events) : "start" \notin DOMAIN events[i]
            THEN general(s1)
            ELSE Matched(meeting_identifier, events,
                         BestMatch(events, 1, meeting_identifier, original_date, 0, 0))
        Identified(meeting_identifier) ==
            IF meeting_identifier = ""
            THEN Say(s0, n, "Could not determine which meeting to reschedule")
            ELSE IF new_date = "" THEN Say(s0, n, "No new date specified for rescheduling")
            ELSE IF ~o.calendar_ok[n] THEN Say(s1, n, "Error fetching calendar events")
            ELSE Events(meeting_identifier, ListUpcoming(s0, 20))
    IN  IF ~s.llm[n].calendar_service
        THEN Say(s0, n, "Calendar service not available, can't reschedule meetings")
        ELSE IF o.reschedule.failed THEN general(s0)
        ELSE IF o.reschedule.malformed THEN Say(s0, n, "Error parsing rescheduling JSON")
        ELSE Identified(Lower(DictGet(data, "meeting_identifier", "")))

\* main.Task.__init__: the id is a hash of title, assignee and due date, written
\* here as the hashed text itself
MainTask(title, description, due_date, assigned_to, priority, project_id) ==
    [id |-> "task_" \o title \o assigned_to \o StrDatetime(due_date),
     title |-> title, description |-> description, due_date |-> due_date,
     assigned_to |-> assigned_to, priority |-> priority, project_id |-> project_id,
     completed |-> FALSE]

\* main.Network.get_tasks_for_node
Network_get_tasks_for_node(s, node_id) ==
    SelectSeq(s.tasks, LAMBDA task : task.assigned_to = node_id)

\* main.Network.add_task
Network_add_task(s, task, o) ==
    LET s1 == [s EXCEPT !.tasks = Append(@, task)] IN
    IF task.assigned_to \in DOMAIN s1.llm
    THEN Call(s1, "Network_send_message",
              <<"system", task.assigned_to,
                "New task assigned: " \o task.title \o ". Due: "
                    \o StrftimeYmd(task.due_date) \o ". Priority: "
                    \o task.priority \o ".",
                o>>)
    ELSE s1

\* LLMNode.list_tasks: the text it returns
RECURSIVE TaskLines(_, _)
TaskLines(tasklist, i) ==
    IF i > Len(tasklist) THEN ""
    ELSE Digit(i) \o ". " \o tasklist[i].title \o " (Due: "
             \o StrftimeYmd(tasklist[i].due_date) \o ", Priority: " \o tasklist[i].priority
             \o ")\n" \o "   Description: " \o tasklist[i].description \o "\n"
             \o TaskLines(tasklist, i + 1)

list_tasks(s, n) ==
    LET tasklist == Network_get_tasks_for_node(s, n) IN
    IF tasklist = <<>> THEN "No tasks assigned to " \o n \o "."
    ELSE "Tasks for " \o n \o ":\n" \o TaskLines(tasklist, 1)

\* LLMNode.create_calendar_reminder
create_calendar_reminder(s, n, task, o) ==
    LET event == [summary |-> "TASK: " \o task.title,
                  description |-> task.description \o "\n\nPriority: " \o task.priority
                                      \o "\nProject: " \o task.project_id,
                  start |-> [dateTime |-> Isoformat(task.due_date), timeZone |-> "UTC"],
                  end |-> [dateTime |-> Isoformat(AddMinutes(task.due_date, 60)),
                           timeZone |-> "UTC"],
                  attendees |-> Attendees(<<task.assigned_to>>)]
        Inserted(s1) == Say(s1, n, "Task reminder created: " \o s1.gcal[Len(s1.gcal)].id)
    IN  IF ~s.llm[n].calendar_service
        THEN Say(s, n, "Calendar service not available, skipping reminder creation")
        ELSE IF ~o.calendar_ok[n]
        THEN Say(Enter(s, "events.insert", n), n, "Failed to create calendar reminder")
        ELSE Inserted(InsertEvent(s, n, event))

\* LLMNode.schedule_meeting
schedule_meeting(s, n, project_id, participants, o) ==
    LET meeting_description == "Meeting for project '" \o project_id \o "'"
        failed(sx) == _fallback_schedule_meeting(
                          Say([sx EXCEPT !.raised = FALSE], n,
                              "Failed to create calendar event"),
                          n, project_id, participants)
        Notified(s3) == IF s3.raised THEN failed(s3) ELSE s3
        Inserted(s1, notification) ==
            LET rec == [project_id |-> project_id, meeting_info |-> meeting_description,
                        event_id |-> s1.gcal[Len(s1.gcal)].id]
                s2 == [Say(s1, n, "Meeting created: " \o rec.event_id) EXCEPT
                          !.llm[n].calendar = Append(@, rec)]
            IN  Notified(NotifyParticipants(s2, n, participants, rec, notification, o))
        Tomorrow(start_time) ==
            Inserted(InsertEvent(s, n,
                         [summary |-> meeting_description,
                          start |-> [dateTime |-> Isoformat(start_time), timeZone |-> "UTC"],
                          end |-> [dateTime |-> Isoformat(AddMinutes(start_time, 60)),
                                   timeZone |-> "UTC"],
                          attendees |-> Attendees(participants)]),
                     "New meeting: '" \o meeting_description \o "' scheduled by " \o n
                         \o " for " \o StrftimeYmd(start_time) \o " "
                         \o StrftimeHM(start_time))
    IN  IF ~s.llm[n].calendar_service
        THEN _fallback_schedule_meeting(
                 Say(s, n, "Calendar service not available, using local scheduling"),
                 n, project_id, participants)
        ELSE IF ~o.calendar_ok[n] THEN failed(Enter(s, "events.insert", n))
        ELSE Tomorrow(AddDays(s.clock, 1))

\* lines 1558-1581: the tasks of one reply of the reasoning service; a reply
\* that lacks a field of a task is a KeyError
RECURSIVE CreateTasks(_, _, _, _, _)
CreateTasks(s, n, project_id, tool_calls, o) ==
    IF tool_calls = <<>> \/ s.raised THEN s
    ELSE LET task_data == Head(tool_calls)
             Added(task, s1) ==
                 IF s1.raised THEN s1
                 ELSE CreateTasks(
                          create_calendar_reminder(
                              Say(s1, n, "Created task: " \o task.title \o " - Due: "
                                             \o StrftimeYmd(task.due_date)
                                             \o " - Assigned to: " \o task.assigned_to),
                              n, task, o),
                          n, project_id, Tail(tool_calls), o)
             Created(task) == Added(task, Call(s, "Network_add_task", <<task, o>>))
         IN  IF {"title", "description", "assigned_to", "due_date_offset", "priority"}
                    \subseteq DOMAIN task_data
             THEN Created(MainTask(task_data.title, task_data.description,
                                   AddDays(s.clock, task_data.due_date_offset),
                                   task_data.assigned_to, task_data.priority, project_id))
             ELSE Raise(s)

\* LLMNode.generate_tasks_from_plan: the reply of the reasoning service for
\* every step is o.step
RECURSIVE generate_tasks_from_plan(_, _, _, _, _)
generate_tasks_from_plan(s, n, project_id, steps, o) ==
    IF steps = <<>> THEN s
    ELSE LET Created(s1) ==
                 IF s1.raised
                 THEN Say([s1 EXCEPT !.raised = FALSE], n, "Error generating tasks for step")
                 ELSE s1
             s2 == IF o.step.failed
                   THEN Say(Enter(s, "create_task", n), n, "Error generating tasks for step")
                   ELSE Created(CreateTasks(Enter(s, "create_task", n), n, project_id,
                                            o.step.tool_calls, o))
         IN  generate_tasks_from_plan(s2, n, project_id, Tail(steps), o)

\* LLMNode.query_llm: the reply of the reasoning service is o.reply; the result
\* is [s, value]
query_llm(s, n, o) ==
    LET s0 == Enter(s, "query_llm", n) IN
    IF o.reply.failed
    THEN [s |-> Say(s0, n, "LLM query failed"), value |-> "LLM query failed."]
    ELSE [s |-> s0, value |-> Strip(o.reply.text)]

\* str(list) of a list of strings
PyList(seq) ==
    "[" \o Join([i \in 1..Len(seq) |-> "'" \o seq[i] \o "'"]) \o "]"

\* lines 1390-1402: the text handed to json.loads, None when the reply does
\* not look like JSON. The replies considered here carry no markdown fence (a
\* TLA+ string cannot hold a backquote), so the search of line 1391 finds none.
JsonToParse(response) ==
    LET json_to_parse == Strip(response) IN
    IF /\ json_to_parse # ""
       /\ SubSeq(json_to_parse, 1, 1) = "{"
       /\ SubSeq(json_to_parse, Len(json_to_parse), Len(json_to_parse)) = "}"
    THEN json_to_parse
    ELSE None

\* variant: whatever text is handed over parses as a plan
LoadPlan_Lenient(reply) ==
    [ok |-> TRUE,
     data |-> [stakeholders |-> <<"CEO", "Marketing">>,
               steps |-> <<[description |-> "Announce"]>>]]

\* line 1406: json.loads(json_to_parse), [ok |-> FALSE] is JSONDecodeError
LoadPlan(reply) == reply.json

\* lines 1413-1417: the lines of the steps in the summary of a plan
RECURSIVE StepLines(_, _)
StepLines(steps, i) ==
    IF i > Len(steps) THEN ""
    ELSE "  " \o Digit(i) \o ". " \o DictGet(steps[i], "description", "No description")
             \o "\n" \o StepLines(steps, i + 1)

\* lines 1434-1457: the stakeholders as node identifiers; the result is
\* [s, participants]
RECURSIVE MapStakeholders(_, _, _, _, _)
MapStakeholders(s, n, project_id, stakeholders, participants) ==
    IF stakeholders = <<>> THEN [s |-> s, participants |-> participants]
    ELSE LET role == Strip(Lower(Head(stakeholders)))
             keys == <<"ceo", "marketing", "engineering", "design">>
             hits == SelectSeq(keys, LAMBDA key : Contains(role, key))
         IN  IF hits = <<>>
             THEN MapStakeholders(
                      Say(s, n, "No mapping for stakeholder '" \o Head(stakeholders)
                                    \o "'. Skipping."),
                      n, project_id, Tail(stakeholders), participants)
             ELSE MapStakeholders(
                      [s EXCEPT !.llm[n].projects[project_id].participants = @ \cup {hits[1]}],
                      n, project_id, Tail(stakeholders), Append(participants, hits[1]))

\* LLMNode.plan_project: json.loads of the text of the reply is o.reply.json
plan_project(s, n, project_id, objective, o) ==
    LET s0 == Enter(s, "plan_project", n)
        s1 == IF project_id \in DOMAIN s.llm[n].projects THEN s0
              ELSE [s0 EXCEPT !.llm[n].projects =
                       DictSet(@, project_id,
                               [name |-> objective, plan |-> <<>>, participants |-> {}])]
        not_expected == "Could not generate project plan. The AI's response was not in the expected format."
        data == LoadPlan(o.reply).data
        stakeholders == DictGet(data, "stakeholders", <<>>)
        steps == DictGet(data, "steps", <<>>)
        plan_summary == "Project '" \o project_id \o "' plan created:\n" \o "Stakeholders: "
                            \o Join(stakeholders) \o "\n" \o "Steps:\n" \o StepLines(steps, 1)
        Scheduled(s5) ==
            Enter(Enter(Say(Call(s5, "generate_tasks_from_plan",
                                 <<n, project_id, steps, o>>),
                            n, "Emitting update events for UI."),
                        "socketio.emit", n),
                  "socketio.emit", n)
        Participants(s4, participants) ==
            Scheduled(IF participants # <<>>
                      THEN Call(s4, "schedule_meeting", <<n, project_id, participants, o>>)
                      ELSE Say(s4, n, "No valid participants identified for project '"
                                          \o project_id \o "'. Skipping meeting schedule."))
        Mapped(mapped) ==
            Participants(Say(mapped.s, n, "Project participants: "
                                              \o PyList(mapped.participants)),
                         mapped.participants)
        Parsed(s2) ==
            Mapped(MapStakeholders(
                       Enter(Respond([s2 EXCEPT !.llm[n].projects[project_id].plan = steps],
                                     n, Strip(plan_summary)),
                             "open", n),
                       n, project_id, stakeholders, <<>>))
        Raw(s2, response) ==
            IF JsonToParse(response) = None
            THEN Respond(Say(s2, n, "LLM response doesn't appear to be JSON: "
                                        \o Strip(response)),
                         n, not_expected)
            ELSE IF ~LoadPlan(o.reply).ok
            THEN Respond(Say(Say(s2, n, "Failed to parse JSON plan"),
                             n, "Received non-JSON response from LLM: " \o response),
                         n, not_expected)
            ELSE Parsed(s2)
        Answered(answer) ==
            Raw(Say(answer.s, n, "LLM raw response (project '" \o project_id \o "'): "
                                     \o answer.value),
                answer.value)
    IN  Answered(query_llm(s1, n, o))

\* re.match(r"^\s*plan\s+([\w-]+)\s*=\s*(.+)$", message.strip(), re.IGNORECASE)
WordChars == LowerCase \o UpperCase \o "0123456789_-"

RECURSIVE SpanOf(_, _)
SpanOf(text, chars) ==
    IF text # "" /\ Contains(chars, SubSeq(text, 1, 1))
    THEN 1 + SpanOf(SubSeq(text, 2, Len(text)), chars)
    ELSE 0

PlanMatch(message) ==
    LET Objective(project_id, objective) ==
            IF objective # "" /\ ~Contains(objective, "\n")
            THEN [matched |-> TRUE, project_id |-> project_id,
                  objective |-> Strip(objective)]
            ELSE [matched |-> FALSE]
        Equals(project_id, from_eq) ==
            IF from_eq # "" /\ SubSeq(from_eq, 1, 1) = "="
            THEN Objective(project_id, LStrip(SubSeq(from_eq, 2, Len(from_eq))))
            ELSE [matched |-> FALSE]
        ProjectId(from_id) ==
            LET id_len == SpanOf(from_id, WordChars) IN
            IF id_len > 0
            THEN Equals(SubSeq(from_id, 1, id_len),
                        LStrip(SubSeq(from_id, id_len + 1, Len(from_id))))
            ELSE [matched |-> FALSE]
        AfterPlan(after_plan) ==
            LET gap == SpanOf(after_plan, " \t\n") IN
            IF gap > 0 THEN ProjectId(SubSeq(after_plan, gap + 1, Len(after_plan)))
            ELSE [matched |-> FALSE]
        Text(text) ==
            IF Len(text) >= 4 /\ Lower(SubSeq(text, 1, 4)) = "plan"
            THEN AfterPlan(SubSeq(text, 5, Len(text)))
            ELSE [matched |-> FALSE]
    IN  Text(Strip(message))

\* variant: a failure of the reasoning service leaves the function as an exception
_detect_calendar_intent_Raises(s, n, o) ==
    IF o.cal_intent.failed
    THEN [s |-> Raise(Enter(s, "_detect_calendar_intent", n)), value |-> EmptyDict]
    ELSE [s |-> Enter(s, "_detect_calendar_intent", n), value |-> o.cal_intent.json]

\* LLMNode._detect_calendar_intent: the reply of the reasoning service is
\* o.cal_intent; the result is [s, value]
_detect_calendar_intent(s, n, o) ==
    LET s0 == Enter(s, "_detect_calendar_intent", n) IN
    IF o.cal_intent.failed
    THEN [s |-> Say(s0, n, "Error detecting intent"),
          value |-> [is_calendar_command |-> FALSE, action |-> None, missing_info |-> <<>>]]
    ELSE [s |-> s0, value |-> o.cal_intent.json]

\* variant: the missing_info of the reasoning service is kept when it gives one
_detect_send_email_intent_Trusting(s, n, o) ==
    IF Active(s.llm[n].email_context)
    THEN [s |-> Enter(s, "_detect_send_email_intent", n), value |-> [is_send_email |-> FALSE]]
    ELSE IF o.email_intent.failed
    THEN [s |-> Say(Enter(s, "_detect_send_email_intent", n), n,
                    "Error detecting send email intent"),
          value |-> [is_send_email |-> FALSE, recipient |-> "", subject |-> "",
                     body |-> "", missing_info |-> <<>>]]
    ELSE [s |-> Enter(s, "_detect_send_email_intent", n),
          value |-> IF "missing_info" \in DOMAIN o.email_intent.json THEN o.email_intent.json
                    ELSE DictSet(o.email_intent.json, "missing_info", <<>>)]

\* LLMNode._detect_send_email_intent: the reply of the reasoning service is
\* o.email_intent; the result is [s, value]
_detect_send_email_intent(s, n, o) ==
    LET s0 == Enter(s, "_detect_send_email_intent", n)
        result == o.email_intent.json
        missing == (IF Not(DictGet(result, "recipient", None)) THEN <<"recipient">> ELSE <<>>)
                       \o (IF Not(DictGet(result, "subject", None)) THEN <<"subject">> ELSE <<>>)
                       \o (IF Not(DictGet(result, "body", None)) THEN <<"body">> ELSE <<>>)
    IN  IF Active(s.llm[n].email_context)
        THEN [s |-> s0, value |-> [is_send_email |-> FALSE]]
        ELSE IF o.email_intent.failed
        THEN [s |-> Say(s0, n, "Error detecting send email intent"),
              value |-> [is_send_email |-> FALSE, recipient |-> "", subject |-> "",
                         body |-> "", missing_info |-> <<>>]]
        ELSE [s |-> s0, value |-> DictSet(result, "missing_info", missing)]

\* LLMNode._analyze_email_command: the reply of the reasoning service is
\* o.analysis; the result is [s, value]
_analyze_email_command(s, n, o) ==
    LET s0 == Enter(s, "_analyze_email_command", n) IN
    IF Active(s.llm[n].email_context)
    THEN [s |-> s0, value |-> [action |-> "none"]]
    ELSE IF o.analysis.failed
    THEN [s |-> Say(s0, n, "Error analyzing email command"),
          value |-> [action |-> "none", criteria |-> EmptyDict, summary_type |-> "concise"]]
    ELSE [s |-> s0, value |-> o.analysis.json]

\* LLMNode.process_advanced_email_command: what the mailbox readers it hands
\* the command to answer is o.advanced; the result is [s, value]
process_advanced_email_command(s, n, o) ==
    LET analysis == _analyze_email_command(Enter(s, "process_advanced_email_command", n), n, o)
    IN  [s |-> analysis.s, value |-> o.advanced]

\* variant: the message is delivered first and logged when the delivery returns
Network_send_message_LogAfter(s, sender_id, recipient_id, content, o) ==
    log_network_message(
        IF recipient_id \in DOMAIN s.llm
        THEN Call(s, "receive_message", <<recipient_id, content, sender_id, o>>)
        ELSE Out(s, "Node " \o recipient_id \o " not found in the network."),
        sender_id, recipient_id, content)

\* main.Network.send_message
Network_send_message(s, sender_id, recipient_id, content, o) ==
    LET s1 == log_network_message(s, sender_id, recipient_id, content) IN
    IF recipient_id \in DOMAIN s1.llm
    THEN Call(s1, "receive_message", <<recipient_id, content, sender_id, o>>)
    ELSE Out(s1, "Node " \o recipient_id \o " not found in the network.")

\* LLMNode.send_message
LLMNode_send_message(s, n, recipient_id, content, o) ==
    Call(s, "Network_send_message", <<n, recipient_id, content, o>>)

\* variant: the commands are taken from every sender
QuickSender_Anyone(sender_id) == TRUE

\* line 580: the commands are looked for in what the command line user writes
QuickSender(sender_id) == sender_id = CliUser

\* lines 608-653: the dispatch of a message of the command line user on what
\* the reasoning service makes of it; the result is [done, s]
Dispatch(s, n, message, o) ==
    LET cal == _detect_calendar_intent(s, n, o)
        calendar_intent == cal.value
        action == DictGet(calendar_intent, "action", None)
        missing_info == DictGet(calendar_intent, "missing_info", <<>>)
        mail == _detect_send_email_intent(cal.s, n, o)
        email_intent == mail.value
        analysis == _analyze_email_command(mail.s, n, o)
        advanced == process_advanced_email_command(analysis.s, n, o)
    IN  IF /\ DictGet(calendar_intent, "is_calendar_command", FALSE)
           /\ action \in {"schedule_meeting", "cancel_meeting", "list_meetings",
                          "reschedule_meeting"}
        THEN [done |-> TRUE,
              s |-> CASE action = "schedule_meeting" ->
                             IF missing_info # <<>>
                             THEN Call(cal.s,
                                       "_start_meeting_creation", <<n, message, missing_info, o>>)
                             ELSE Call(cal.s, "_handle_meeting_creation", <<n, message, o>>)
                      [] action = "cancel_meeting" ->
                             Call(cal.s, "_handle_meeting_cancellation", <<n, message, o>>)
                      [] action = "list_meetings" -> _handle_list_meetings(cal.s, n, o)
                      [] action = "reschedule_meeting" ->
                             Call(cal.s, "_handle_meeting_rescheduling", <<n, message, o>>)]
        ELSE IF DictGet(email_intent, "is_send_email", FALSE)
        THEN [done |-> TRUE,
              s |-> _start_email_composition(mail.s, n, message,
                                             DictGet(email_intent, "missing_info", <<>>),
                                             email_intent)]
        ELSE IF DictGet(analysis.value, "action", None) # "none"
        THEN [done |-> TRUE, s |-> Respond(advanced.s, n, advanced.value)]
        ELSE [done |-> FALSE, s |-> analysis.s]

\* lines 655-661: the conversational fallback
Converse(s, n, message, sender_id, o) ==
    LET s1 == [Enter(s, "conversation_history.append", n) EXCEPT
                  !.llm[n].conversation_history =
                  Append(@, [role |-> "user",
                             content |-> sender_id \o " says: " \o message])]
        Answered(answer) ==
            Respond([answer.s EXCEPT !.llm[n].conversation_history =
                        Append(@, [role |-> "assistant", content |-> answer.value])],
                    n, answer.value)
    IN  IF sender_id = CliUser THEN Answered(query_llm(s1, n, o)) ELSE s1

\* LLMNode.receive_message; the record of the call tells which dialog of the
\* node was active when the message came in
receive_message(s, n, message, sender_id, o) ==
    LET meeting_active == Active(s.llm[n].meeting_context)
        email_active == Active(s.llm[n].email_context)
        s0 == [s EXCEPT !.calls =
                  Append(@, [fn |-> "receive_message", node |-> n, sender |-> sender_id,
                             active |-> IF DictGet(s.llm[n].meeting_context, "active", FALSE)
                                        THEN "meeting"
                                        ELSE IF DictGet(s.llm[n].email_context, "active", FALSE)
                                        THEN "email" ELSE "none",
                             arg |-> message])]
        s1 == IF sender_id = CliUser THEN s0
              ELSE log_network_message(s0, sender_id, n, message)
        s2 == Say(s1, n, "Received from " \o sender_id \o ": " \o message)
        Dispatched(dispatched) ==
            IF dispatched.done \/ dispatched.s.raised THEN dispatched.s
            ELSE Converse(dispatched.s, n, message, sender_id, o)
        Plan(plan_match) ==
            IF QuickSender(sender_id) /\ plan_match.matched
            THEN Call(s2, "plan_project", <<n, plan_match.project_id, plan_match.objective, o>>)
            ELSE IF meeting_active
            THEN Call(s2, "_continue_meeting_creation", <<n, message, sender_id, o>>)
            ELSE IF email_active
            THEN _continue_email_composition(s2, n, message, sender_id, o)
            ELSE IF sender_id = CliUser THEN Dispatched(Dispatch(s2, n, message, o))
            ELSE Converse(s2, n, message, sender_id, o)
    IN  IF QuickSender(sender_id) /\ Lower(Strip(message)) = "tasks"
        THEN Respond(Enter(s2, "list_tasks", n), n, list_tasks(s2, n))
        ELSE Plan(PlanMatch(message))

\* one method of Network or LLMNode calls another, synchronously: fn names the
\* method called and a holds its arguments; the result is the state in which the
\* call returns
Call(s, fn, a) ==
    CASE fn = "receive_message" -> receive_message(s, a[1], a[2], a[3], a[4])
      [] fn = "Network_send_message" -> Network_send_message(s, a[1], a[2], a[3], a[4])
      [] fn = "LLMNode_send_message" -> LLMNode_send_message(s, a[1], a[2], a[3], a[4])
      [] fn = "_handle_meeting_creation" -> _handle_meeting_creation(s, a[1], a[2], a[3])
      [] fn = "_create_calendar_meeting" ->
             _create_calendar_meeting(s, a[1], a[2], a[3], a[4], a[5], a[6], a[7])
      [] fn = "_ask_for_next_meeting_info" -> _ask_for_next_meeting_info(s, a[1], a[2])
      [] fn = "_start_meeting_creation" -> _start_meeting_creation(s, a[1], a[2], a[3], a[4])
      [] fn = "_continue_meeting_creation" -> _continue_meeting_creation(s, a[1], a[2], a[3], a[4])
      [] fn = "_complete_meeting_rescheduling" -> _complete_meeting_rescheduling(s, a[1], a[2])
      [] fn = "_handle_meeting_cancellation" -> _handle_meeting_cancellation(s, a[1], a[2], a[3])
      [] fn = "_handle_meeting_rescheduling" -> _handle_meeting_rescheduling(s, a[1], a[2], a[3])
      [] fn = "Network_add_task" -> Network_add_task(s, a[1], a[2])
      [] fn = "schedule_meeting" -> schedule_meeting(s, a[1], a[2], a[3], a[4])
      [] fn = "generate_tasks_from_plan" -> generate_tasks_from_plan(s, a[1], a[2], a[3], a[4])
      [] fn = "plan_project" -> plan_project(s, a[1], a[2], a[3], a[4])

\* ------------------------------------------------------------------------
\* The nodes of main.py at work: what the command line user and the peers say,
\* and what the reasoning service, the calendar and the mailbox answer
\* ------------------------------------------------------------------------

\* datetime.now() of the runs considered: the last half hour of a year, where
\* "one hour from now" is a time of day that today has already passed
Now == [y |-> 2026, m |-> 12, d |-> 31, H |-> 23, M |-> 30, S |-> 0]

Failed == [failed |-> TRUE]
Json(d) == [failed |-> FALSE, json |-> d]

\* replies of the reasoning service to _extract_meeting_details
DetailsFuture ==
    Json([title |-> "Sync", participants |-> <<"Marketing ">>, date |-> "2027-01-15",
          time |-> "14:30", duration |-> [int |-> 30]])
DetailsPast ==
    Json([title |-> "Sync", participants |-> <<"ceo">>, date |-> "2025-01-01",
          time |-> "08:00"])
DetailsNow ==
    Json([title |-> "Review", participants |-> <<"ceo">>, date |-> "2026-12-31",
          time |-> "23:30"])
DetailsNoDate == Json([title |-> "Review", participants |-> <<"ceo">>, date |-> ""])
DetailsUnparsed ==
    Json([title |-> "Sync", participants |-> <<"ceo">>, date |-> "tomorrow", time |-> "9am"])
DetailsNoTitle == Json([participants |-> <<"ceo">>, date |-> "2027-01-15", time |-> "14:30"])
DetailsNobody ==
    Json([title |-> "Sync", participants |-> <<"legal">>, date |-> "2027-01-15",
          time |-> "14:30"])
DetailsBadDuration ==
    Json([title |-> "Sync", participants |-> <<"ceo">>, date |-> "2027-01-15",
          time |-> "14:30", duration |-> [bad |-> "an hour"]])

DetailsReplies ==
    {DetailsFuture, DetailsPast, DetailsNow, DetailsNoDate, DetailsUnparsed, DetailsNoTitle,
     DetailsNobody, DetailsBadDuration, Failed}

\* replies to _detect_calendar_intent
CalendarIntent(action, missing_info) ==
    Json([is_calendar_command |-> TRUE, action |-> action, missing_info |-> missing_info])

NotCalendar == Json([is_calendar_command |-> FALSE, action |-> None, missing_info |-> <<>>])

\* replies to _detect_send_email_intent
SendEmail(recipient, subject, body) ==
    Json([is_send_email |-> TRUE, recipient |-> recipient, subject |-> subject,
          body |-> body, missing_info |-> <<>>])

NotSendEmail == Json([is_send_email |-> FALSE])

\* replies to the cancellation and to the rescheduling prompt
CancelReplies ==
    {Failed,
     Json([title |-> "Standup"]),
     Json([title |-> "standup", with_participants |-> <<"CEO">>, date |-> "2027-01-04"]),
     Json([with_participants |-> <<"design">>, date |-> "2027-01"])}

Reschedule(d) == [failed |-> FALSE, malformed |-> FALSE, json |-> d]

RescheduleReplies ==
    {[failed |-> TRUE, malformed |-> FALSE],
     [failed |-> FALSE, malformed |-> TRUE],
     Reschedule([meeting_identifier |-> "Standup", new_date |-> "2027-01-05",
                 new_time |-> "15:00"]),
     Reschedule([meeting_identifier |-> "standup", original_date |-> "2027-01-04",
                 new_date |-> "2025-01-01", new_time |-> "08:00"])}

\* replies to query_llm, with what json.loads makes of their text
Chat(text) == [failed |-> FALSE, text |-> text, json |-> [ok |-> FALSE]]

PlanReply ==
    [failed |-> FALSE, text |-> "{plan}",
     json |-> [ok |-> TRUE,
               data |-> [stakeholders |-> <<"CEO", "Marketing Lead", "Legal">>,
                         steps |-> <<[description |-> "Announce"]>>]]]

\* replies to the task prompt of generate_tasks_from_plan
StepReplies ==
    {[failed |-> TRUE],
     [failed |-> FALSE,
      tool_calls |-> <<[title |-> "Announce", description |-> "Write the post",
                        assigned_to |-> "marketing", due_date_offset |-> 1,
                        priority |-> "high"]>>],
     [failed |-> FALSE, tool_calls |-> <<[title |-> "Announce"]>>]}

\* the answers when nothing fails and the message is small talk
Quiet ==
    [details |-> [n \in NodeIds |-> DetailsFuture],
     calendar_ok |-> [n \in NodeIds |-> TRUE],
     send |-> [n \in NodeIds |-> TRUE],
     parse |-> [n \in NodeIds |-> Failed],
     cancel |-> Failed,
     reschedule |-> [failed |-> TRUE, malformed |-> FALSE],
     step |-> [failed |-> TRUE],
     reply |-> Chat("Noted."),
     cal_intent |-> NotCalendar,
     email_intent |-> NotSendEmail,
     analysis |-> Json([action |-> "none"]),
     advanced |-> "I couldn't find any emails matching your criteria."]

\* what the collaborators may answer while one message is handled
Answers ==
    {Quiet, [Quiet EXCEPT !.reply = Failed],
     [Quiet EXCEPT !.cal_intent = Failed, !.email_intent = Failed, !.analysis = Failed],
     [Quiet EXCEPT !.analysis = Json([action |-> "search"])],
     [Quiet EXCEPT !.analysis = Json([criteria |-> EmptyDict])],
     [Quiet EXCEPT !.cal_intent = CalendarIntent("list_meetings", <<>>)],
     [Quiet EXCEPT !.cal_intent = CalendarIntent("list_meetings", <<>>),
                   !.calendar_ok = [n \in NodeIds |-> FALSE]],
     [Quiet EXCEPT !.cal_intent = CalendarIntent("check_calendar", <<>>)],
     [Quiet EXCEPT !.cal_intent = CalendarIntent("schedule_meeting", <<"date", "time">>)],
     [Quiet EXCEPT !.cal_intent = CalendarIntent("schedule_meeting", <<"title">>)],
     [Quiet EXCEPT !.reply = Chat("{plan}")],
     [Quiet EXCEPT !.email_intent = SendEmail("", "", "")],
     [Quiet EXCEPT !.email_intent = SendEmail("marketing", "Hi", "")],
     [Quiet EXCEPT !.email_intent = SendEmail("Marketing", "", "See you at the launch")],
     [Quiet EXCEPT !.send = [n \in NodeIds |-> FALSE]],
     [Quiet EXCEPT !.parse = [n \in NodeIds |-> Json([subject |-> "Hi", body |-> "Hello"])]]}
    \cup {[Quiet EXCEPT !.cal_intent = CalendarIntent("schedule_meeting", <<>>),
                        !.details = [n \in NodeIds |-> d]] : d \in DetailsReplies}
    \cup {[Quiet EXCEPT !.cal_intent = CalendarIntent("schedule_meeting", <<>>),
                        !.details = [n \in NodeIds |-> d],
                        !.calendar_ok = [n \in NodeIds |-> FALSE]] :
              d \in {DetailsFuture, DetailsNow}}
    \cup {[Quiet EXCEPT !.cal_intent = CalendarIntent("cancel_meeting", <<>>), !.cancel = c] :
              c \in CancelReplies}
    \cup {[Quiet EXCEPT !.cal_intent = CalendarIntent("reschedule_meeting", <<>>),
                        !.reschedule = r] : r \in RescheduleReplies}

\* what they may answer to the prompts of plan_project
PlanAnswers ==
    {[Quiet EXCEPT !.reply = r] : r \in {Failed, Chat("Noted."), Chat("{plan"), Chat("{plan}")}}
    \cup {[Quiet EXCEPT !.reply = PlanReply, !.step = t,
                        !.calendar_ok = [n \in NodeIds |-> ok]] :
              t \in StepReplies, ok \in BOOLEAN}

\* the reasoning service makes a past date of what the meeting dialog collected
ResolvesPast == [Quiet EXCEPT !.details = [n \in NodeIds |-> DetailsPast]]

\* what the command line user types in reply to the question of a dialog, or
\* at any other time, and what the collaborators answer
ReplyInputs ==
    {[message |-> m, o |-> a] : m \in {"2025-01-01", "08:00"}, a \in {Quiet, ResolvesPast}}
    \cup {[message |-> m, o |-> Quiet] :
              m \in {" Tasks ", "yes", "nevermind", "don't send", "later",
                     "subject: Hi body: Hello"}}
    \cup {[message |-> "yes", o |-> [Quiet EXCEPT !.send = [n \in NodeIds |-> FALSE]]],
          [message |-> "subject: Hi body: Hello",
           o |-> [Quiet EXCEPT !.parse =
                     [n \in NodeIds |-> Json([subject |-> "Hi", body |-> "Hello"])]]]}

\* the requests about the calendar
CalendarInputs ==
    {[message |-> "hello", o |-> a] :
        a \in {x \in Answers : /\ ~x.cal_intent.failed
                                /\ x.cal_intent.json.is_calendar_command
                                /\ x.cal_intent.json.missing_info = <<>>}}

\* all the command line user types: requests, the plan command, replies
CliInputs ==
    {[message |-> "hello", o |-> a] : a \in Answers}
    \cup {[message |-> "plan p1 = Launch", o |-> a] : a \in PlanAnswers}
    \cup ReplyInputs

\* replies to _detect_send_email_intent a dialog may be started with directly
EmailData ==
    {SendEmail("marketing", "Hi", "See you at the launch").json,
     SendEmail("Marketing Team", "", "See you at the launch").json}

\* events another client of the calendar has made: a timed one, an all-day
\* one, one whose record carries no times
ExternalEvents ==
    <<[id |-> "ext1", summary |-> "Standup",
       start |-> [dateTime |-> "2027-01-04T09:00:00", timeZone |-> "UTC"],
       end |-> [dateTime |-> "2027-01-04T09:15:00", timeZone |-> "UTC"],
       attendees |-> <<[email |-> "ceo@example.com"]>>],
      [id |-> "ext2", summary |-> "Budget", start |-> [date |-> "2027-01-05"],
       end |-> [date |-> "2027-01-06"]],
      [id |-> "ext3", summary |-> "Standup",
       attendees |-> <<[email |-> "ceo@example.com"]>>]>>

\* the node the command line user is attached to
CliNodes == {"ceo"}

\* what a peer writes
PeerMessages == {"Status?", "sure"}

\* the runs considered hand the nodes this many messages from outside
MaxMessages == 3

\* LLMNode.__init__ and Network.register_node for every node; the process runs
\* with or without the credentials of the calendar and the mailbox
NodeInit ==
    \E credentials \in BOOLEAN :
        /\ nodes = <<>>
        /\ network = <<>>
        /\ tasks = <<>>
        /\ next_uuid = 0
        /\ netlog = <<>>
        /\ calls = <<>>
        /\ stdout = <<>>
        /\ raised = FALSE
        /\ view = [list |-> <<>>, shares |-> FALSE]
        /\ llm = [n \in NodeIds |->
                     [calendar_service |-> credentials, gmail_service |-> credentials,
                      conversation_history |-> <<>>, projects |-> EmptyDict, calendar |-> <<>>,
                      meeting_context |-> EmptyDict, email_context |-> EmptyDict]]
        /\ gcal = <<>>
        /\ gcal_next = 0
        /\ gmail = <<>>
        /\ clock = Now
        /\ added = <<>>
        /\ handled = 0
        /\ op = NoOp
        /\ threads = [t \in Threads |-> Idle]

\* the process starts with events of other clients in the calendar
CalendarInit ==
    \E credentials \in BOOLEAN, kept \in 0..Len(ExternalEvents) :
        /\ nodes = <<>>
        /\ network = <<>>
        /\ tasks = <<>>
        /\ next_uuid = 0
        /\ netlog = <<>>
        /\ calls = <<>>
        /\ stdout = <<>>
        /\ raised = FALSE
        /\ view = [list |-> <<>>, shares |-> FALSE]
        /\ llm = [n \in NodeIds |->
                     [calendar_service |-> credentials, gmail_service |-> credentials,
                      conversation_history |-> <<>>, projects |-> EmptyDict, calendar |-> <<>>,
                      meeting_context |-> EmptyDict, email_context |-> EmptyDict]]
        /\ gcal = SubSeq(ExternalEvents, 1, kept)
        /\ gcal_next = 0
        /\ gmail = <<>>
        /\ clock = Now
        /\ added = <<>>
        /\ handled = 0
        /\ op = NoOp
        /\ threads = [t \in Threads |-> Idle]

\* the command line user hands a node a message
Receive(n, input) ==
    /\ handled < MaxMessages
    /\ Commit(Call(Fresh(St), "receive_message", <<n, input.message, CliUser, input.o>>))
    /\ added' = added
    /\ handled' = handled + 1
    /\ op' = [name |-> "receive_message", a |-> n, b |-> input.message, c |-> CliUser]

\* the command line user writes to a node
CliMessage == \E n \in CliNodes, input \in CliInputs : Receive(n, input)

\* the command line user replies
CliReply == \E n \in CliNodes, input \in ReplyInputs : Receive(n, input)

\* the command line user asks for something about the calendar
CalendarRequest == \E n \in CliNodes, input \in CalendarInputs : Receive(n, input)

\* a caller starts the meeting dialog with nothing to ask for
StartMeeting ==
    \E n \in CliNodes, input \in CalendarInputs :
        /\ handled < MaxMessages
        /\ Commit(Call(Fresh(St), "_start_meeting_creation",
                       <<n, input.message, <<>>, input.o>>))
        /\ added' = added
        /\ handled' = handled + 1
        /\ op' = [name |-> "_start_meeting_creation", a |-> n, b |-> input.message,
                  c |-> CliUser]

\* a caller starts the email dialog with nothing to ask for
StartEmail ==
    \E n \in CliNodes, email_data \in EmailData :
        /\ handled < MaxMessages
        /\ Commit(_start_email_composition(Fresh(St), n, "hello", <<>>, email_data))
        /\ added' = added
        /\ handled' = handled + 1
        /\ op' = [name |-> "_start_email_composition", a |-> n, b |-> "hello",
                  c |-> CliUser]

\* a node writes to a peer, registered or not
PeerMessage ==
    \E n \in NodeIds, recipient_id \in RoleNames, content \in PeerMessages,
       a \in {Quiet, ResolvesPast} :
        /\ n # recipient_id
        /\ recipient_id \in {"ceo", "marketing", "design"}
        /\ handled < MaxMessages
        /\ Commit(Call(Fresh(St), "LLMNode_send_message", <<n, recipient_id, content, a>>))
        /\ added' = added
        /\ handled' = handled + 1
        /\ op' = [name |-> "send_message", a |-> recipient_id, b |-> content, c |-> n]

NodeNext ==
    \/ CliMessage
    \/ PeerMessage

SpecNode == NodeInit /\ [][NodeNext]_vars

\* the dialogs started by a direct call
StartNext ==
    \/ StartMeeting
    \/ StartEmail
    \/ CliReply
    \/ PeerMessage

SpecStart == NodeInit /\ [][StartNext]_vars

\* the calendar shared with other clients
CalendarNext ==
    \/ CalendarRequest
    \/ PeerMessage

SpecCalendar == CalendarInit /\ [][CalendarNext]_vars

\* ------------------------------------------------------------------------
\* Properties of the bus
\* ------------------------------------------------------------------------

\* a meeting of the shared calendar is moved, and the questions of the dialog are
\* answered
RescheduleNext ==
    \/ CalendarRequest
    \/ CliReply

SpecReschedule == CalendarInit /\ [][RescheduleNext]_vars

\* the tasks a caller may build: two records may agree in title, assignee and due
\* date and differ in the rest
TaskInputs ==
    {MainTask(title, description, AddDays(Now, offset), assigned_to, "high", project_id) :
        title \in {"Announce", "Review"}, description \in {"Write the post", "Check the post"},
        offset \in {1, 2}, assigned_to \in {"marketing", "legal"}, project_id \in {"p1"}}

\* a caller builds a task and adds it to the network
AddMainTask ==
    \E task \in TaskInputs :
        /\ handled < MaxMessages
        /\ Commit(Call(Fresh(St), "Network_add_task", <<task, Quiet>>))
        /\ added' = added
        /\ handled' = handled + 1
        /\ op' = [name |-> "add_task", a |-> task, b |-> None, c |-> None]

TasksNext == AddMainTask

SpecTasks == NodeInit /\ [][TasksNext]_vars

\* what the email dialog is seeded with when only the body is missing
BodyMissing ==
    {SendEmail("marketing", "Hi", "").json, SendEmail("Marketing Team", "", "").json}

\* a caller starts the email dialog with the body to ask for
StartEmailBody ==
    \E n \in CliNodes, email_data \in BodyMissing :
        /\ handled < MaxMessages
        /\ Commit(_start_email_composition(Fresh(St), n, "hello", <<"body">>, email_data))
        /\ added' = added
        /\ handled' = handled + 1
        /\ op' = [name |-> "_start_email_composition", a |-> n, b |-> <<"body">>,
                  c |-> email_data]

ComposeNext ==
    \/ StartEmailBody
    \/ CliReply

SpecCompose == NodeInit /\ [][ComposeNext]_vars

\* replies to the preview: with and without indicators of either list, in either
\* case, with indicators inside longer words
ConfirmationReplies ==
    {prefix \o core \o suffix :
        prefix \in {"", "No, ", "  "},
        core \in {"yes", "YES", "send it", "ok", "maybe", "now send", "I know", "wait",
                  "looks good", "later", "don't send", "go ahead"},
        suffix \in {"", " please", " - cancel"}}

\* the classifier is applied to a reply
Classify ==
    \E message \in ConfirmationReplies :
        /\ handled < MaxMessages
        /\ handled' = handled + 1
        /\ op' = [name |-> "_is_confirmation_positive", a |-> message,
                  b |-> _is_confirmation_positive(message), c |-> None]
        /\ UNCHANGED <<nodes, network, tasks, next_uuid, netlog, calls, stdout, raised,
                       view, llm, gcal, gcal_next, gmail, clock, added, threads>>

ClassifierNext == Classify

SpecClassifier == NodeInit /\ [][ClassifierNext]_vars

\* replies to the rescheduling prompt that name a meeting in different ways: by its
\* title, by a word of its title, by an attendee, by a part of the attendees'
\* addresses, by nothing the calendar holds
MatchReplies ==
    {Reschedule([meeting_identifier |-> identifier, original_date |-> original_date,
                 new_date |-> "2027-01-05", new_time |-> "15:00"]) :
        identifier \in {"Standup", "daily standup", "ceo", "example", "retro"},
        original_date \in {"", "2027-01-05"}}

\* the command line user asks to move a meeting; the reasoning service makes one of
\* replies of the request
Move(replies) ==
    \E n \in CliNodes, reply \in replies :
        /\ handled < MaxMessages
        /\ Commit(Call(Fresh(St), "_handle_meeting_rescheduling",
                       <<n, "hello", [Quiet EXCEPT !.reschedule = reply]>>))
        /\ added' = added
        /\ handled' = handled + 1
        /\ op' = [name |-> "_handle_meeting_rescheduling", a |-> n, b |-> reply.json,
                  c |-> CliUser]

RescheduleRequest == Move(MatchReplies)

MatchNext == RescheduleRequest

SpecMatch == CalendarInit /\ [][MatchNext]_vars

\* the meeting ceo has created with marketing, as the calendar service and the two
\* nodes hold it
SyncEvent ==
    [id |-> "evt1", summary |-> "Sync",
     start |-> [dateTime |-> "2027-01-15T14:30:00", timeZone |-> "UTC"],
     end |-> [dateTime |-> "2027-01-15T15:00:00", timeZone |-> "UTC"],
     attendees |-> <<[email |-> "marketing@example.com"], [email |-> "ceo@example.com"]>>]

SyncRecord ==
    [project_id |-> "meeting_" \o Timestamp(Now), meeting_info |-> "Sync", event_id |-> "evt1"]

\* the state after ceo has created that meeting, beside events of other clients
MoveInit ==
    \E kept \in 0..2 :
        /\ nodes = <<>>
        /\ network = <<>>
        /\ tasks = <<>>
        /\ next_uuid = 0
        /\ netlog = <<>>
        /\ calls = <<>>
        /\ stdout = <<>>
        /\ raised = FALSE
        /\ view = [list |-> <<>>, shares |-> FALSE]
        /\ llm = [n \in NodeIds |->
                     [calendar_service |-> TRUE, gmail_service |-> TRUE,
                      conversation_history |->
                          IF n = "marketing"
                          THEN <<[role |-> "user",
                                  content |-> "ceo says: New meeting: 'Sync' scheduled by ceo for 2027-01-15 at 14:30"]>>
                          ELSE <<>>,
                      projects |-> EmptyDict, calendar |-> <<SyncRecord>>,
                      meeting_context |-> EmptyDict, email_context |-> EmptyDict]]
        /\ gcal = SubSeq(ExternalEvents, 1, kept) \o <<SyncEvent>>
        /\ gcal_next = 1
        /\ gmail = <<>>
        /\ clock = Now
        /\ added = <<>>
        /\ handled = 0
        /\ op = NoOp
        /\ threads = [t \in Threads |-> Idle]

\* requests to move that meeting: to a future time, with and without a new duration,
\* and to a past time
MoveReplies ==
    {Reschedule([meeting_identifier |-> "sync", original_date |-> "",
                 new_date |-> "2027-01-20", new_time |-> "16:00"]),
     Reschedule([meeting_identifier |-> "Sync", original_date |-> "2027-01-15",
                 new_date |-> "2027-01-20", new_time |-> "16:00",
                 new_duration |-> [int |-> 45]]),
     Reschedule([meeting_identifier |-> "sync", original_date |-> "",
                 new_date |-> "2025-01-01", new_time |-> "08:00",
                 new_duration |-> [int |-> 45]])}

MoveRequest == Move(MoveReplies)

MoveNext ==
    \/ MoveRequest
    \/ CliReply

SpecMove == MoveInit /\ [][MoveNext]_vars

\* what the reasoning service makes of a request to cancel: the meeting by its
\* title, by a participant, every meeting, a title nobody has, and no answer
WithdrawReplies ==
    {[failed |-> FALSE, json |-> [title |-> "sync"]],
     [failed |-> FALSE, json |-> [with_participants |-> <<"Marketing">>]],
     [failed |-> FALSE, json |-> [title |-> "Standup", date |-> "2027-01-04"]],
     [failed |-> FALSE, json |-> EmptyDict],
     [failed |-> FALSE, json |-> [title |-> "retro"]],
     [failed |-> TRUE]}

\* a node handles a request to cancel meetings
CancelRequest ==
    \E n \in CliNodes, reply \in WithdrawReplies :
        /\ handled < MaxMessages
        /\ Commit(Call(Fresh(St), "_handle_meeting_cancellation",
                       <<n, "hello", [Quiet EXCEPT !.cancel = reply]>>))
        /\ added' = added
        /\ handled' = handled + 1
        /\ op' = [name |-> "_handle_meeting_cancellation", a |-> n, b |-> reply, c |-> CliUser]

\* cancellations of a calendar that holds a meeting of the nodes
WithdrawNext == CancelRequest

SpecWithdraw == MoveInit /\ [][WithdrawNext]_vars

\* what the email dialog is seeded with when the subject is missing
SubjectMissing ==
    {[data |-> SendEmail("marketing", "", "").json, missing_info |-> <<"subject", "body">>],
     [data |-> SendEmail("marketing", "", "See you").json, missing_info |-> <<"subject">>],
     [data |-> SendEmail("", "", "").json,
      missing_info |-> <<"recipient", "subject", "body">>]}

\* a caller starts the email dialog with the subject to ask for
StartEmailSubject ==
    \E n \in CliNodes, seed \in SubjectMissing :
        /\ handled < MaxMessages
        /\ Commit(_start_email_composition(Fresh(St), n, "hello", seed.missing_info,
                                           seed.data))
        /\ added' = added
        /\ handled' = handled + 1
        /\ op' = [name |-> "_start_email_composition", a |-> n, b |-> seed.missing_info,
                  c |-> seed.data]

\* replies to the question for the subject: the wording the question suggests,
\* with and without article, the markers, and a plain subject
SubjectReplies ==
    {"The subject is Hi, body is Hello",
     "the subject is 'Hi', the body message is 'Hello'",
     "Subject: Hi, Body: Hello",
     "subject: Hi\nbody: Hello",
     "The subject is Hi, body: Hello",
     "Hi",
     "marketing@example.com"}

\* the command line user answers the question for the subject
SubjectReply ==
    \E n \in CliNodes, m \in SubjectReplies : Receive(n, [message |-> m, o |-> Quiet])

SubjectNext ==
    \/ StartEmailSubject
    \/ SubjectReply

SpecSubject == NodeInit /\ [][SubjectNext]_vars

\* the projects planned
ProjectIds == {"p1", "p2"}

\* a node is asked to plan a project
PlanRequest ==
    \E n \in CliNodes, project_id \in ProjectIds, o \in PlanAnswers :
        /\ handled < MaxMessages
        /\ Commit(Call(Fresh(St), "plan_project", <<n, project_id, "Launch", o>>))
        /\ added' = added
        /\ handled' = handled + 1
        /\ op' = [name |-> "plan_project", a |-> n, b |-> project_id, c |-> o.reply]

PlanNext == PlanRequest

SpecPlan == NodeInit /\ [][PlanNext]_vars

\* replies to _detect_send_email_intent with fields absent, empty and null, and
\* with a missing_info of the reasoning service's own
EmailIntentReplies ==
    {Failed, NotSendEmail,
     SendEmail("alice@example.com", "Hello", "Just checking in"),
     SendEmail("marketing", "", "See you"),
     Json([is_send_email |-> TRUE, recipient |-> "marketing", subject |-> None, body |-> "",
           missing_info |-> <<"recipient">>]),
     Json([is_send_email |-> TRUE, subject |-> "Hi", missing_info |-> <<>>]),
     Json([is_send_email |-> TRUE, recipient |-> "", subject |-> "", body |-> None,
           missing_info |-> <<"body", "subject">>]),
     Json([is_send_email |-> TRUE, recipient |-> "bob", subject |-> "Hi", body |-> "Yo",
           missing_info |-> <<"recipient", "subject", "body">>])}

\* what the reasoning service answers an extractor
ExtractAnswers ==
    {[Quiet EXCEPT !.cal_intent = c] :
         c \in {Failed, NotCalendar, CalendarIntent("schedule_meeting", <<"date", "time">>)}}
    \cup {[Quiet EXCEPT !.email_intent = e] : e \in EmailIntentReplies}
    \cup {[Quiet EXCEPT !.analysis = a] : a \in {Failed, Json([action |-> "search"])}}
    \cup {[Quiet EXCEPT !.details = [n \in NodeIds |-> d]] :
              d \in {Failed, DetailsNoDate, DetailsPast}}

\* an extractor has been applied: its name, what the reasoning service answered,
\* what it returned
Extracted(n, name, reply, result) ==
    /\ handled < MaxMessages
    /\ Commit(result.s)
    /\ added' = added
    /\ handled' = handled + 1
    /\ op' = [name |-> name, a |-> n, b |-> reply, c |-> result.value]

ExtractCalendarIntent ==
    \E n \in NodeIds, o \in ExtractAnswers :
        Extracted(n, "_detect_calendar_intent", o.cal_intent,
                  _detect_calendar_intent(Fresh(St), n, o))

ExtractEmailIntent ==
    \E n \in NodeIds, o \in ExtractAnswers :
        Extracted(n, "_detect_send_email_intent", o.email_intent,
                  _detect_send_email_intent(Fresh(St), n, o))

ExtractEmailAnalysis ==
    \E n \in NodeIds, o \in ExtractAnswers :
        Extracted(n, "_analyze_email_command", o.analysis,
                  _analyze_email_command(Fresh(St), n, o))

ExtractMeetingDetails ==
    \E n \in NodeIds, o \in ExtractAnswers :
        Extracted(n, "_extract_meeting_details", o.details[n],
                  [s |-> Fresh(St), value |-> _extract_meeting_details(Fresh(St), n, o)])

\* the extractors, on nodes with and without an email dialog
ExtractNext ==
    \/ StartEmail
    \/ ExtractCalendarIntent
    \/ ExtractEmailIntent
    \/ ExtractEmailAnalysis
    \/ ExtractMeetingDetails

SpecExtract == NodeInit /\ [][ExtractNext]_vars

\* messages of the command line user for every stage of receive_message: the
\* quick commands, replies to a dialog, requests the reasoning service takes for
\* a calendar or an email command, and small talk
StageInputs ==
    {[message |-> m, o |-> Quiet] : m \in {" Tasks ", "plan p1 = Launch", "2027-01-15", "hello"}}
    \cup {[message |-> "hello", o |-> a] :
              a \in {[Quiet EXCEPT !.cal_intent = CalendarIntent("list_meetings", <<>>)],
                     [Quiet EXCEPT !.cal_intent = CalendarIntent("check_calendar", <<>>)],
                     [Quiet EXCEPT !.cal_intent =
                                       CalendarIntent("schedule_meeting", <<"date", "time">>)],
                     [Quiet EXCEPT !.cal_intent = CalendarIntent("schedule_meeting", <<>>)],
                     [Quiet EXCEPT !.email_intent = SendEmail("marketing", "Hi", "")],
                     [Quiet EXCEPT !.analysis = Json([action |-> "search"])]}}

\* the command line user writes to a node
StageMessage == \E n \in CliNodes, input \in StageInputs : Receive(n, input)

\* the texts of the commands
CommandTexts == {"tasks", " Tasks ", "plan p1 = Launch"}

\* a node writes a peer the text of a command
PeerCommand ==
    \E n \in NodeIds, recipient_id \in NodeIds, content \in CommandTexts :
        /\ n # recipient_id
        /\ handled < MaxMessages
        /\ Commit(Call(Fresh(St), "LLMNode_send_message", <<n, recipient_id, content, Quiet>>))
        /\ added' = added
        /\ handled' = handled + 1
        /\ op' = [name |-> "send_message", a |-> recipient_id, b |-> content, c |-> n]

\* the commands from the command line user and from peers, with and without a
\* dialog
CommandNext ==
    \/ StageMessage
    \/ PeerCommand

SpecCommand == NodeInit /\ [][CommandNext]_vars

\* a caller starts the meeting dialog of a node with the title to ask for
StartMeetingTitle ==
    \E n \in NodeIds :
        /\ handled < MaxMessages
        /\ Commit(Call(Fresh(St), "_start_meeting_creation", <<n, "hello", <<"title">>, Quiet>>))
        /\ added' = added
        /\ handled' = handled + 1
        /\ op' = [name |-> "_start_meeting_creation", a |-> n, b |-> "hello", c |-> CliUser]

\* sends between nodes, some of them received by a dialog that answers with sends
\* of its own
NestedNext ==
    \/ StartMeetingTitle
    \/ PeerMessage

SpecNested == NodeInit /\ [][NestedNext]_vars

\* the queues of missing details a meeting dialog is started with
Queues == {<<"title">>, <<"date", "time">>, <<"title", "participants", "date">>}

\* a caller starts the meeting dialog of a node with details to ask for, before
\* any message is handed over
DialogStart ==
    \E n \in NodeIds, missing_info \in Queues :
        /\ handled = 0
        /\ ~Active(llm[n].meeting_context)
        /\ Commit(Call(Fresh(St), "_start_meeting_creation",
                       <<n, "hello", missing_info, Quiet>>))
        /\ added' = added
        /\ handled' = handled
        /\ op' = [name |-> "_start_meeting_creation", a |-> n, b |-> "hello", c |-> CliUser]

\* what the command line user answers the questions of the meeting dialog, and
\* a command typed in between
DialogInputs ==
    {[message |-> m, o |-> Quiet] : m \in {"Sync", "08:00", " Tasks "}}
    \cup {[message |-> "08:00", o |-> ResolvesPast]}

\* the command line user answers
DialogReply == \E n \in CliNodes, input \in DialogInputs : Receive(n, input)

\* meeting dialogs of both nodes, answered by the command line user and by
\* peers
DialogNext ==
    \/ DialogStart
    \/ DialogReply
    \/ PeerMessage

SpecDialog == NodeInit /\ [][DialogNext]_vars

\* the reasoning service makes each node invite the other
Mutual ==
    [Quiet EXCEPT !.details =
        [n \in NodeIds |->
            Json([title |-> "Sync",
                  participants |-> <<IF n = "ceo" THEN "marketing" ELSE "ceo">>,
                  date |-> "2027-01-15", time |-> "14:30"])]]

\* the command line user answers a question, and the meeting made of the
\* answers invites the peer
MutualReply ==
    \E n \in CliNodes, message \in {"Sync", "08:00"} :
        Receive(n, [message |-> message, o |-> Mutual])

\* a node writes its peer, whose dialog may make a meeting that invites the
\* writer
MutualMessage ==
    \E n \in NodeIds, recipient_id \in NodeIds :
        /\ n # recipient_id
        /\ handled < MaxMessages
        /\ Commit(Call(Fresh(St), "LLMNode_send_message", <<n, recipient_id, "sure", Mutual>>))
        /\ added' = added
        /\ handled' = handled + 1
        /\ op' = [name |-> "send_message", a |-> recipient_id, b |-> "sure", c |-> n]

\* dialogs of both nodes whose meetings invite the other node: a delivery that
\* completes a dialog notifies a node that may complete its own
ChainNext ==
    \/ DialogStart
    \/ MutualReply
    \/ MutualMessage

SpecChain == NodeInit /\ [][ChainNext]_vars

\* what the threads hand to a node with a meeting dialog
RaceReplies == {"Sync", "08:00"}

\* a caller starts the meeting dialog of the node the threads write to
RaceStart ==
    \E n \in CliNodes, missing_info \in Queues :
        /\ handled = 0
        /\ ~Active(llm[n].meeting_context)
        /\ Commit(Call(Fresh(St), "_start_meeting_creation",
                       <<n, "hello", missing_info, Quiet>>))
        /\ added' = added
        /\ handled' = handled
        /\ op' = [name |-> "_start_meeting_creation", a |-> n, b |-> "hello", c |-> CliUser]

\* a step of a thread: what it leaves in the state and where it stands next
Step(t, s, th) ==
    /\ Store(s)
    /\ threads' = [threads EXCEPT ![t] = th]
    /\ added' = added

\* the state a step of a thread starts from: the records of the calls and the
\* lines printed are those of all the messages handed over so far
Running == [St EXCEPT !.raised = FALSE]

\* run_cli (2774-2781) and send_message_internal (2997): a thread hands a node
\* a message of the command line user. receive_message prints the message and
\* reads the flag of the meeting dialog (557-599); with the dialog active the
\* thread goes on to _continue_meeting_creation, otherwise the message is
\* handled to the end
ThreadReceive ==
    \E t \in Threads, n \in CliNodes, message \in RaceReplies :
        /\ threads[t].pc = "idle"
        /\ handled < MaxMessages
        /\ handled' = handled + 1
        /\ op' = [name |-> "receive_message", a |-> n, b |-> message, c |-> CliUser]
        /\ IF Active(llm[n].meeting_context)
           THEN Step(t,
                     Enter(Say([Running EXCEPT !.calls =
                                   Append(@, [fn |-> "receive_message", node |-> n,
                                              sender |-> CliUser, active |-> "meeting",
                                              arg |-> message])],
                               n, "Received from " \o CliUser \o ": " \o message),
                           "_continue_meeting_creation", n),
                     [pc |-> "empty", node |-> n, message |-> message, current_info |-> ""])
           ELSE Step(t, Call(Running, "receive_message", <<n, message, CliUser, Quiet>>),
                     Idle)

\* line 771: if not self.meeting_context['missing_info']
ThreadEmpty ==
    \E t \in Threads :
        /\ threads[t].pc = "empty"
        /\ handled' = handled
        /\ op' = op
        /\ IF llm[threads[t].node].meeting_context.missing_info = <<>>
           THEN Step(t, [Running EXCEPT !.llm[threads[t].node].meeting_context =
                            DictSet(@, "active", FALSE)], Idle)
           ELSE Step(t, Running, [threads[t] EXCEPT !.pc = "pop"])

\* line 776: current_info = self.meeting_context['missing_info'].pop(0), an
\* IndexError when the other thread has taken the last item meanwhile
ThreadPop ==
    \E t \in Threads :
        /\ threads[t].pc = "pop"
        /\ handled' = handled
        /\ op' = op
        /\ IF llm[threads[t].node].meeting_context.missing_info = <<>>
           THEN Step(t, Raise(Running), Idle)
           ELSE Step(t, [Running EXCEPT !.llm[threads[t].node].meeting_context.missing_info =
                            Tail(@)],
                     [threads[t] EXCEPT
                         !.pc = "store",
                         !.current_info =
                             Head(llm[threads[t].node].meeting_context.missing_info)])

\* line 777: self.meeting_context['collected_info'][current_info] = message
ThreadStore ==
    \E t \in Threads :
        /\ threads[t].pc = "store"
        /\ handled' = handled
        /\ op' = op
        /\ Step(t, [EnterWith(Running, "collected_info.__setitem__", threads[t].node,
                              threads[t].current_info)
                       EXCEPT !.llm[threads[t].node].meeting_context.collected_info =
                                  DictSet(@, threads[t].current_info, threads[t].message)],
                [threads[t] EXCEPT !.pc = "more"])

\* lines 779-781: the next question while something is missing
ThreadMore ==
    \E t \in Threads :
        /\ threads[t].pc = "more"
        /\ handled' = handled
        /\ op' = op
        /\ IF llm[threads[t].node].meeting_context.missing_info # <<>>
           THEN Step(t, Call(Running, "_ask_for_next_meeting_info", <<threads[t].node, Quiet>>),
                     Idle)
           ELSE Step(t, Running, [threads[t] EXCEPT !.pc = "complete"])

\* what lines 783-789 call with the context found
Completion(s, n, ctx) ==
    IF DictGet(ctx, "is_rescheduling", FALSE) /\ "target_event_id" \in DOMAIN ctx
    THEN Call(s, "_complete_meeting_rescheduling", <<n, Quiet>>)
    ELSE IF _construct_complete_meeting_message(ctx).raised THEN Raise(s)
    ELSE Call(s, "_handle_meeting_creation",
              <<n, _construct_complete_meeting_message(ctx).value, Quiet>>)

\* lines 783-789: the completion handler
ThreadComplete ==
    \E t \in Threads :
        /\ threads[t].pc = "complete"
        /\ handled' = handled
        /\ op' = op
        /\ \E s \in {Completion(Running, threads[t].node,
                                  llm[threads[t].node].meeting_context)} :
               Step(t, s, IF s.raised THEN Idle ELSE [threads[t] EXCEPT !.pc = "finish"])

\* lines 791-792: the dialog is closed and its end announced
ThreadFinish ==
    \E t \in Threads :
        /\ threads[t].pc = "finish"
        /\ handled' = handled
        /\ op' = op
        /\ Step(t,
                Respond([Running EXCEPT !.llm[threads[t].node].meeting_context =
                            DictSet(@, "active", FALSE)],
                        threads[t].node,
                        "Meeting "
                        \o (IF DictGet(llm[threads[t].node].meeting_context,
                                       "is_rescheduling", FALSE)
                            THEN "rescheduled" ELSE "scheduled")
                        \o " successfully with all required information."),
                Idle)

\* two threads hand messages to a node whose meeting dialog was started; the
\* interpreter may switch threads between any two statements of
\* _continue_meeting_creation
RaceNext ==
    \/ RaceStart
    \/ ThreadReceive
    \/ ThreadEmpty
    \/ ThreadPop
    \/ ThreadStore
    \/ ThreadMore
    \/ ThreadComplete
    \/ ThreadFinish

SpecRace == NodeInit /\ [][RaceNext]_vars

C5_UnknownRecipient ==
    [][(op'.name = "send" /\ nodes[op'.b] = None) =>
          /\ calls' = <<>>
          /\ netlog' = <<[from |-> op'.a, to |-> op'.b, content |-> op'.c]>>
          /\ Len(stdout') = 1
          /\ Contains(stdout'[1], op'.b)
          /\ ~raised'
          /\ nodes' = nodes
          /\ network' = network
          /\ tasks' = tasks]_vars

\* a send to an unregistered id has been made while another node was registered
\* and a task was recorded
C5_Witness ==
    /\ op.name = "send"
    /\ nodes[op.b] = None
    /\ \E i \in BusIds : nodes[i] # None
    /\ tasks # <<>>
    /\ Len(stdout) = 1

\* the date a task's notification is expected to show
C6_DueText(task) ==
    IF task.due_date = [y |-> 2026, m |-> 12, d |-> 31] THEN "2026-12-31" ELSE "2025-05-01"

\* C6: add_task(T) always records T; with T.assigned_to registered at that moment
\* it sends exactly one bus message, from "system" to the assignee, containing
\* T's title, due date and priority; with the assignee not registered it sends
\* none; registering the assignee later delivers nothing, although
\* tasks_for(assignee) then returns T.
C6_TaskNotification ==
    [][/\ op'.name = "add_task" =>
            /\ tasks' = Append(tasks, op'.b)
            /\ IF nodes[op'.a] # None
               THEN /\ Len(netlog') = 1
                    /\ netlog'[1].from = "system"
                    /\ netlog'[1].to = op'.b.assigned_to
                    /\ Contains(netlog'[1].content, op'.b.title)
                    /\ Contains(netlog'[1].content, C6_DueText(op'.b))
                    /\ Contains(netlog'[1].content, op'.b.priority)
                    /\ calls' = <<[node |-> nodes[op'.a], content |-> netlog'[1].content,
                                   sender |-> "system"]>>
               ELSE netlog' = <<>> /\ calls' = <<>>
       /\ op'.name = "register" =>
            /\ netlog' = <<>>
            /\ calls' = <<>>
            /\ \A k \in 1..Len(added) :
                   added[k].assigned_to = op'.a =>
                       \E j \in 1..Len(get_tasks_for_node([tasks |-> tasks'], op'.a).list) :
                           get_tasks_for_node([tasks |-> tasks'], op'.a).list[j] = added[k]]_vars

\* the first registration ever made on the bus binds an id that already has a
\* task: the task was added while its assignee was not registered
C6_Witness ==
    /\ op.name = "register"
    /\ \A o \in Objs : network[o] = "unset" <=> o # op.b
    /\ get_tasks_for_node(St, op.a).list # <<>>
    /\ calls = <<>>

\* C7: after any sequence of register, unregister, send and add_task calls,
\* tasks_for(n) is the subsequence of the tasks passed to add_task whose
\* assigned_to is n, in call order; the task list is append-only (it is the
\* sequence of all added tasks), and mutating a list returned by tasks_for does
\* not change it.
C7_TasksFor ==
    /\ tasks = added
    /\ \A i \in BusIds :
           get_tasks_for_node(St, i).list =
               SelectSeq(added, LAMBDA task : task.assigned_to = i)

\* a returned list has been emptied by its caller while the bus holds two tasks
\* of one assignee, added in a known order, and one of another
C7_Witness ==
    /\ op.name = "mutate_view"
    /\ Len(tasks) >= 2
    /\ tasks[1].assigned_to = tasks[2].assigned_to
    /\ tasks[1].title # tasks[2].title
    /\ Len(get_tasks_for_node(St, tasks[1].assigned_to).list) >= 2

\* ------------------------------------------------------------------------
\* Properties of the dialogs of a node
\* ------------------------------------------------------------------------

\* the call that continues the dialog found active
ContinueOf(active) ==
    IF active = "meeting" THEN "_continue_meeting_creation"
    ELSE "_continue_email_composition"

\* the message of the i-th call went to the continuation of the active dialog
Consumed(i) ==
    /\ i < Len(calls)
    /\ calls[i + 1].node = calls[i].node
    /\ calls[i + 1].fn = ContinueOf(calls[i].active)

\* a text the command line front end of receive_message takes for a command
QuickCommand(text) == Lower(Strip(text)) = "tasks" \/ PlanMatch(text).matched

IntentDetection ==
    {"_detect_calendar_intent", "_detect_send_email_intent", "_analyze_email_command",
     "process_advanced_email_command"}

ResolvedStart(reply) ==
    LET date == IF DictGet(reply.json, "date", "") = "" THEN StrftimeYmd(clock)
                ELSE reply.json.date
        time == IF DictGet(reply.json, "time", "") = ""
                THEN StrftimeHM(AddMinutes(clock, 60)) ELSE reply.json.time
    IN  Strptime(date \o " " \o time)

\* the reply names a meeting: a title and at least one participant of a known role
NamesMeeting(reply) ==
    /\ ~reply.failed
    /\ DictGet(reply.json, "title", "") # ""
    /\ \E i \in 1..Len(DictGet(reply.json, "participants", <<>>)) :
           Strip(Lower(reply.json.participants[i])) \in RoleNames

StartsInPast(reply) ==
    /\ NamesMeeting(reply)
    /\ ResolvedStart(reply).ok
    /\ Before(ResolvedStart(reply).t, clock)

\* the call at j is the return of the handler call at i
ReturnOf(i, j) ==
    /\ j > i
    /\ calls[j].fn = "_handle_meeting_creation returns"
    /\ calls[j].node = calls[i].node
    /\ \A k \in (i + 1)..(j - 1) :
           ~(calls[k].fn = "_handle_meeting_creation returns" /\ calls[k].node = calls[i].node)

Scheduling == {"events.insert", "_fallback_schedule_meeting"}

\* C2: whenever the meeting-creation handler resolves a start strictly before
\* now, it creates no event and records no meeting, neither in the calendar nor
\* locally, and it returns with the meeting context active and date and time,
\* in this order, as all that is missing.
C2_TemporalRejection ==
    \A i \in 1..Len(calls) :
        (calls[i].fn = "_handle_meeting_creation" /\ StartsInPast(calls[i].arg)) =>
            \E j \in 1..Len(calls) :
                /\ ReturnOf(i, j)
                /\ \A k \in i..j :
                       ~(calls[k].node = calls[i].node /\ calls[k].fn \in Scheduling)
                /\ Active(calls[j].arg)
                /\ calls[j].arg.missing_info = <<"date", "time">>

\* the handler, called for a request of the command line user, resolved a past
\* start and left the dialog open
C2_Witness ==
    \E i \in 1..Len(calls) :
        /\ calls[i].fn = "_handle_meeting_creation"
        /\ StartsInPast(calls[i].arg)
        /\ gcal = <<>>
        /\ Active(llm[calls[i].node].meeting_context)

\* a line the node printed during the latest call
Printed(n, text) == \E i \in 1..Len(stdout) : stdout[i] = "[" \o n \o "] " \o text

DateQuestion ==
    "Response: On what date should the meeting be scheduled? (Please use YYYY-MM-DD format, e.g., 2023-12-31) (please ensure it's a future date and time)"

\* C3: a meeting dialog started with date and time missing takes its last
\* reply, and what it collected resolves to a past start; then no meeting is
\* scheduled, the node asks for the date again, and when receive_message
\* returns the context is active with date and time missing.
C3_ScenarioB ==
    [][\A n \in NodeIds :
          (/\ Active(llm[n].meeting_context)
           /\ "initial_message" \in DOMAIN llm[n].meeting_context
           /\ llm[n].meeting_context.missing_info = <<"time">>
           /\ DOMAIN llm[n].meeting_context.collected_info = {"date"}
           /\ Len(calls') >= 3
           /\ calls'[1].fn = "receive_message" /\ calls'[1].node = n
           /\ calls'[2].fn = "_continue_meeting_creation"
           /\ calls'[3].fn = "_handle_meeting_creation"
           /\ StartsInPast(calls'[3].arg))
          => /\ \A k \in 1..Len(calls') : calls'[k].fn \notin Scheduling
             /\ gcal' = gcal
             /\ llm'[n].calendar = llm[n].calendar
             /\ \E i \in 1..Len(stdout') : stdout'[i] = "[" \o n \o "] " \o DateQuestion
             /\ Active(llm'[n].meeting_context)
             /\ llm'[n].meeting_context.missing_info = <<"date", "time">>]_vars

\* a question was put to the user during the latest call
Asked ==
    \E i \in 1..Len(stdout) : Contains(stdout[i], "] Response: ") /\ Contains(stdout[i], "?")

Times(fn, n) == Cardinality({i \in 1..Len(calls) : calls[i].fn = fn /\ calls[i].node = n})

SatisfiesFilters(filters, event) ==
    LET start == DictGet(event, "start", EmptyDict)
        attendees == DictGet(event, "attendees", <<>>)
    IN  /\ DictGet(filters, "title", "") # "" =>
               /\ "summary" \in DOMAIN event
               /\ Contains(Lower(event.summary), Lower(filters.title))
        /\ DictGet(filters, "with_participants", <<>>) # <<>> =>
               \E i \in 1..Len(filters.with_participants), j \in 1..Len(attendees) :
                   Lower(filters.with_participants[i])
                       = Lower(LocalPart(DictGet(attendees[j], "email", "")))
        /\ DictGet(filters, "date", "") # "" =>
               \E k \in DOMAIN start \cap {"dateTime", "date"} :
                   Contains(start[k], filters.date)

\* C9: a cancellation deletes an upcoming event if and only if the event
\* satisfies every filter supplied among title, participants and date, whatever
\* fields the record of the event has.
C9_CancellationAnd ==
    [][\A k \in 1..Len(calls') :
          (calls'[k].fn = "_handle_meeting_cancellation" /\ ~calls'[k].arg.failed) =>
              \A i \in 1..Len(gcal) :
                  LET deleted == \A j \in 1..Len(gcal') : gcal'[j].id # gcal[i].id
                      completed ==
                          /\ llm[calls'[k].node].calendar_service
                          /\ \A x \in 1..Len(stdout') :
                                 ~Contains(stdout'[x], "Error cancelling meeting")
                  IN  /\ deleted => SatisfiesFilters(calls'[k].arg.json, gcal[i])
                      /\ (completed /\ ~EventEnded(gcal[i], clock)
                            /\ SatisfiesFilters(calls'[k].arg.json, gcal[i])) => deleted]_vars

CancelNotice == "Response: Email sending cancelled. You can start over or modify your request."

\* C10: when the email dialog of a node waits for the confirmation and takes a
\* reply that is not positive ("nevermind", "don't send", "later" among them),
\* the dialog is inactive afterwards, the node has printed the notice of
\* cancellation, and nothing was sent.
C10_Declined ==
    [][\A n \in NodeIds :
          (/\ Active(llm[n].email_context)
           /\ DictGet(llm[n].email_context, "state", "") = "confirming"
           /\ Len(calls') >= 2
           /\ calls'[1].fn = "receive_message" /\ calls'[1].node = n
           /\ calls'[2].fn = "_continue_email_composition"
           /\ \/ ~_is_confirmation_positive(calls'[1].arg)
              \/ calls'[1].arg \in {"nevermind", "don't send", "later"})
          => /\ ~Active(llm'[n].email_context)
             /\ \E i \in 1..Len(stdout') : stdout'[i] = "[" \o n \o "] " \o CancelNotice
             /\ gmail' = <<>>
             /\ \A k \in 1..Len(calls') :
                    calls'[k].fn \notin {"_send_email_after_confirmation", "messages.send"}]_vars

\* the user answered the preview with "nevermind" and the dialog was closed
C10_Witness ==
    /\ Len(calls) >= 2
    /\ calls[1].fn = "receive_message"
    /\ calls[1].arg = "nevermind"
    /\ calls[2].fn = "_continue_email_composition"
    /\ DictGet(llm[calls[1].node].email_context, "state", "") = "confirming"
    /\ ~Active(llm[calls[1].node].email_context)
    /\ Printed(calls[1].node, CancelNotice)
    /\ gmail = <<>>

\* the calls of the mailbox's send made while the latest message was handled
Sends(trace) == {k \in 1..Len(trace) : trace[k].fn = "messages.send"}

\* C11: while one message is handled the mailbox's send is called at most
\* once; a node calls it only when its email dialog was active and waiting for
\* the confirmation and the message it took is classified as positive; and
\* whether the send succeeds or fails, the dialog is inactive afterwards, so
\* that no later message sends again without a new dialog.
C11_SendOnce ==
    [][/\ Cardinality(Sends(calls')) <= 1
       /\ Len(gmail') = Cardinality(Sends(calls'))
       /\ \A k \in Sends(calls') :
              LET n == calls'[k].node IN
              /\ Active(llm[n].email_context)
              /\ DictGet(llm[n].email_context, "state", "") = "confirming"
              /\ \E i \in 1..(k - 1) :
                     /\ calls'[i].fn = "receive_message" /\ calls'[i].node = n
                     /\ calls'[i + 1].fn = "_continue_email_composition"
                     /\ _is_confirmation_positive(calls'[i].arg)
              /\ ~Active(llm'[n].email_context)]_vars

\* the user confirmed, the send failed, and the dialog is closed
C11_Witness ==
    /\ Cardinality(Sends(calls)) = 1
    /\ Len(gmail) = 1
    /\ Printed(gmail[1].node,
               "Response: There was an error sending your email. Please try again later.")
    /\ ~Active(llm[gmail[1].node].email_context)
    /\ llm[gmail[1].node].email_context.state = "confirming"

\* the registered nodes that the extracted details invite
Invited(reply) ==
    {p \in NodeIds : \E i \in 1..Len(DictGet(reply.json, "participants", <<>>)) :
                         Strip(Lower(reply.json.participants[i])) = p}

NotifiedBy(n, p) == \E m \in 1..Len(netlog) : netlog[m].from = n /\ netlog[m].to = p

\* C12: when the calendar is unavailable or its create call fails during meeting
\* creation, the creator holds a local record without event_id and every invited
\* node other than the creator has been sent a message over the network
C12_FallbackNotifies ==
    \A i \in 1..Len(calls), k \in 1..Len(calls) :
        (/\ i < k
         /\ calls[i].fn = "_handle_meeting_creation"
         /\ NamesMeeting(calls[i].arg)
         /\ calls[k].fn = "_fallback_schedule_meeting"
         /\ calls[k].node = calls[i].node) =>
            LET n == calls[i].node
                calendar == llm[n].calendar
            IN  /\ calendar # <<>>
                /\ "event_id" \notin DOMAIN calendar[Len(calendar)]
                /\ \A p \in Invited(calls[i].arg) \ {n} : NotifiedBy(n, p)

\* the event that the latest call created in the calendar service for node n
CreatedBy(n, event) ==
    /\ gcal # <<>>
    /\ event = gcal[Len(gcal)]
    /\ Printed(n, "Meeting created: " \o event.id)
    /\ Times("_fallback_schedule_meeting", n) = 0

HoldsRecord(p, event) ==
    \E r \in 1..Len(llm[p].calendar) : DictGet(llm[p].calendar[r], "event_id", "") = event.id

\* C13: after a successful calendar create in meeting creation the creator and every
\* registered participant hold a record with the new event_id, every participant
\* other than the creator has been sent a notification about the meeting over the
\* network, and the creator has been sent none
C13_CreatedAndNotified ==
    \A i \in 1..Len(calls) :
        (/\ calls[i].fn = "_handle_meeting_creation"
         /\ gcal # <<>>
         /\ CreatedBy(calls[i].node, gcal[Len(gcal)])) =>
            LET n == calls[i].node
                event == gcal[Len(gcal)]
            IN  /\ \A p \in Invited(calls[i].arg) \cup {n} : HoldsRecord(p, event)
                /\ \A p \in Invited(calls[i].arg) \ {n} :
                       \E m \in 1..Len(netlog) :
                           /\ netlog[m].from = n
                           /\ netlog[m].to = p
                           /\ Contains(netlog[m].content,
                                       "New meeting: '" \o event.summary \o "'")
                /\ \A m \in 1..Len(netlog) :
                       netlog[m].to = n => ~Contains(netlog[m].content, "New meeting: '")

C13_Witness ==
    \E i \in 1..Len(calls) :
        /\ calls[i].fn = "_handle_meeting_creation"
        /\ calls[i].node = "ceo"
        /\ gcal # <<>>
        /\ CreatedBy("ceo", gcal[Len(gcal)])
        /\ "marketing" \in Invited(calls[i].arg)
        /\ NotifiedBy("ceo", "marketing")
        /\ HoldsRecord("marketing", gcal[Len(gcal)])

\* C14: whatever the message, the state of the dialogs and the outcomes of the
\* reasoning service and of the calendar and mail services, receive_message returns
\* normally
C14_NoEscape == op.name = "receive_message" => ~raised

\* the dialog that _handle_meeting_creation opens when it rejects the date and time:
\* title and participants are kept, and it alone records no initial message
Rejected(ctx) ==
    /\ Active(ctx)
    /\ ~DictGet(ctx, "is_rescheduling", FALSE)
    /\ "initial_message" \notin DOMAIN ctx
    /\ {"title", "participants"} \subseteq DOMAIN ctx.collected_info

\* C15: after meeting creation re-entered collection for a past or unparseable date
\* and time, and the date has been given, the reply with the time completes the
\* dialog: the scheduling handler runs, nothing is raised and the user is not asked
\* for the title or the participants
C15_ResumeAfterRejection ==
    [][\A n \in NodeIds :
           (/\ Rejected(llm[n].meeting_context)
            /\ llm[n].meeting_context.missing_info = <<"time">>
            /\ \E i \in 1..(Len(calls') - 1) :
                   /\ calls'[i].fn = "receive_message"
                   /\ calls'[i].node = n
                   /\ calls'[i + 1].fn = "_continue_meeting_creation"
                   /\ calls'[i + 1].node = n
                   /\ Strptime(llm[n].meeting_context.collected_info.date
                                   \o " " \o calls'[i].arg).ok) =>
               /\ ~raised'
               /\ \E k \in 1..Len(calls') :
                      calls'[k].fn = "_handle_meeting_creation" /\ calls'[k].node = n
               /\ \A e \in 1..Len(stdout') :
                      /\ ~Contains(stdout'[e], "title")
                      /\ ~Contains(stdout'[e], "participate")]_vars

\* the reschedule dialog of node n has located its event and waits for the time
AwaitsNewTime(n) ==
    /\ Active(llm[n].meeting_context)
    /\ DictGet(llm[n].meeting_context, "is_rescheduling", FALSE)
    /\ "target_event_id" \in DOMAIN llm[n].meeting_context
    /\ llm[n].meeting_context.missing_info = <<"time">>

\* the time just given, with the date collected before it, is unparseable or past
RejectedTime(n, time) ==
    LET parsed == Strptime(llm[n].meeting_context.collected_info.date \o " " \o time)
    IN  ~parsed.ok \/ Before(parsed.t, clock)

\* C16: when a reschedule dialog completes with a new start that is in the past or
\* unparseable, the event of the calendar service is not updated and the node asks
\* for date and time again, keeping the event it had located
C16_NoAutoCorrect ==
    [][\A n \in NodeIds :
           (/\ AwaitsNewTime(n)
            /\ \E i \in 1..(Len(calls') - 1) :
                   /\ calls'[i].fn = "receive_message"
                   /\ calls'[i].node = n
                   /\ calls'[i + 1].fn = "_continue_meeting_creation"
                   /\ calls'[i + 1].node = n
                   /\ RejectedTime(n, calls'[i].arg)) =>
               /\ gcal' = gcal
               /\ Active(llm'[n].meeting_context)
               /\ llm'[n].meeting_context.missing_info = <<"date", "time">>
               /\ DictGet(llm'[n].meeting_context, "target_event_id", None)
                      = llm[n].meeting_context.target_event_id]_vars

\* C17: the id of a task never changes once the task is on the network, and two
\* distinct task records on the same network have different ids, whatever their
\* titles, assignees and due dates
C17_TaskIds ==
    [][/\ \A i \in 1..Len(tasks) : i <= Len(tasks') /\ tasks'[i].id = tasks[i].id
       /\ \A i \in 1..Len(tasks'), j \in 1..Len(tasks') :
              tasks'[i] # tasks'[j] => tasks'[i].id # tasks'[j].id]_vars

\* C18: register binds the id to the node given, replacing what was bound and leaving
\* the other ids alone, and sets the back-reference of the node; unregister removes
\* the binding and clears the back-reference of the node that was bound; for an id
\* that is absent it changes nothing and raises nothing; get_all_nodes is the set of
\* the ids that are bound
C18_Registry ==
    [][/\ op'.name = "register" =>
              /\ nodes' = [nodes EXCEPT ![op'.a] = op'.b]
              /\ network' = [network EXCEPT ![op'.b] = "bus"]
              /\ get_all_nodes([nodes |-> nodes']) = get_all_nodes(St) \cup {op'.a}
              /\ ~raised'
       /\ op'.name = "unregister" =>
              /\ nodes' = [nodes EXCEPT ![op'.a] = None]
              /\ network' = IF nodes[op'.a] = None THEN network
                            ELSE [network EXCEPT ![nodes[op'.a]] = None]
              /\ get_all_nodes([nodes |-> nodes']) = get_all_nodes(St) \ {op'.a}
              /\ tasks' = tasks
              /\ ~raised']_vars

C18_Witness ==
    /\ op.name = "unregister"
    /\ nodes[op.a] = None
    /\ ~raised
    /\ \E o \in Objs : network[o] = None
    /\ \E i \in BusIds : nodes[i] # None /\ network[nodes[i]] = "bus"

\* the lines the latest call printed as responses of node n
Responses(n, out) ==
    SelectSeq(out, LAMBDA line : Contains(line, "[" \o n \o "] Response: "))

\* the email dialog of node n waits for the body and for nothing else
AwaitsBody(n) ==
    /\ Active(llm[n].email_context)
    /\ llm[n].email_context.state = "collecting_info"
    /\ llm[n].email_context.missing_info = <<"body">>

\* C19: an email dialog started with only the body missing asks one question, for
\* the body, and sends nothing; the reply that the dialog takes brings it to
\* "confirming" with one response, the preview, which shows the seeded recipient, the
\* seeded subject, or "(No subject)" when that is empty, and the reply as it is as
\* the body, and nothing has been sent
C19_ScenarioC ==
    [][/\ (op'.name = "_start_email_composition" /\ op'.b = <<"body">>) =>
              /\ Responses(op'.a, stdout')
                     = <<"[" \o op'.a \o "] Response: " \o EmailQuestion("body", <<"body">>)>>
              /\ llm'[op'.a].email_context.state = "collecting_info"
              /\ llm'[op'.a].email_context.collected_info.recipient = op'.c.recipient
              /\ llm'[op'.a].email_context.collected_info.subject = op'.c.subject
              /\ gmail' = <<>>
       /\ \A n \in NodeIds :
              (/\ AwaitsBody(n)
               /\ Len(calls') >= 2
               /\ calls'[1].fn = "receive_message"
               /\ calls'[1].node = n
               /\ calls'[2].fn = "_continue_email_composition") =>
                  LET seeded == llm[n].email_context.collected_info IN
                  /\ Active(llm'[n].email_context)
                  /\ llm'[n].email_context.state = "confirming"
                  /\ Responses(n, stdout')
                         = <<"[" \o n \o "] Response: " \o " Email Preview \n\n"
                               \o "To: " \o seeded.recipient \o "\n" \o "Subject: "
                               \o (IF seeded.subject = "" THEN "(No subject)"
                                   ELSE seeded.subject)
                               \o "\n---\n" \o calls'[1].arg \o "\n---\n\n"
                               \o "Would you like me to send this email? (Yes/No)">>
                  /\ gmail' = <<>>
                  /\ Sends(calls') = {}]_vars

C19_Witness ==
    /\ op.name = "receive_message"
    /\ Len(calls) >= 2
    /\ calls[2].fn = "_continue_email_composition"
    /\ llm[op.a].email_context.state = "confirming"
    /\ llm[op.a].email_context.collected_info.subject = ""
    /\ llm[op.a].email_context.collected_info.body = "subject: Hi body: Hello"
    /\ \E i \in 1..Len(stdout) : Contains(stdout[i], "Subject: (No subject)")
    /\ gmail = <<>>

HasNegative(message) ==
    \E indicator \in negative_indicators : Contains(Lower(message), indicator)

HasPositive(message) ==
    \E indicator \in positive_indicators : Contains(Lower(message), indicator)

\* C20: the classifier of confirmations answers positive if and only if the reply
\* contains no negative indicator and contains at least one positive indicator, so
\* that a reply with indicators of both lists is a decline
C20_Classifier ==
    op.name = "_is_confirmation_positive" =>
        op.b = (~HasNegative(op.a) /\ HasPositive(op.a))

C20_Witness ==
    /\ op.name = "_is_confirmation_positive"
    /\ HasNegative(op.a)
    /\ HasPositive(op.a)
    /\ op.b = FALSE

\* the score of an event as the sum of +3 for the identifier in the title, +1 for a
\* word of the identifier in the title, +2 for the identifier in the local part of an
\* attendee's address and +4 for the original date in the start of the event
SumScore(event, identifier, original_date) ==
    LET title == Lower(DictGet(event, "summary", ""))
        attendees == DictGet(event, "attendees", <<>>)
        words == Words(identifier)
        start == DictGet(event, "start", EmptyDict)
    IN  (IF Contains(title, identifier) THEN 3 ELSE 0)
        + (IF \E i \in 1..Len(words) : Contains(title, words[i]) THEN 1 ELSE 0)
        + (IF \E i \in 1..Len(attendees) :
                  Contains(Lower(LocalPart(DictGet(attendees[i], "email", ""))), identifier)
           THEN 2 ELSE 0)
        + (IF original_date # ""
              /\ \E k \in DOMAIN start \cap {"dateTime", "date"} :
                     Contains(start[k], original_date)
           THEN 4 ELSE 0)

\* C21: in meeting rescheduling the score of an upcoming event is that sum; an event
\* that is updated has the highest score, which is at least 1, and when no event
\* scores at least 1 the node reports that nothing matches and updates nothing
C21_Scoring ==
    [][op'.name = "_handle_meeting_rescheduling" =>
           LET identifier == Lower(op'.b.meeting_identifier)
               original_date == op'.b.original_date
               events == ListUpcoming(St, 20)
               score(e) == SumScore(e, identifier, original_date)
           IN  (/\ llm[op'.a].calendar_service
                /\ events # <<>>
                /\ \A i \in 1..Len(events) : "start" \in DOMAIN events[i]) =>
                   /\ (\A i \in 1..Len(events) : score(events[i]) < 1) =>
                          /\ gcal' = gcal
                          /\ \E x \in 1..Len(stdout') :
                                 Contains(stdout'[x], "Could not find a meeting matching")
                   /\ \A i \in 1..Len(gcal) :
                          gcal'[i] # gcal[i] =>
                              /\ score(gcal[i]) >= 1
                              /\ \A j \in 1..Len(events) :
                                     score(events[j]) <= score(gcal[i])]_vars

\* the minutes an event of the calendar service lasts
Lasts(event) == MinutesBetween(FromIso(event.start.dateTime), FromIso(event["end"].dateTime))

\* the registered nodes among the attendees of an event
AttendeeNodes(event) ==
    {p \in NodeIds : \E i \in 1..Len(DictGet(event, "attendees", <<>>)) :
                         LocalPart(DictGet(event.attendees[i], "email", "")) = p}

\* the latest call reports that it has moved a meeting
Rescheduled(out) == \E x \in 1..Len(out) : Contains(out[x], "has been rescheduled to")

RecordsOf(calendar, event_id) ==
    {r \in 1..Len(calendar) : DictGet(calendar[r], "event_id", None) = event_id}

BothParts(message) ==
    IF SubjectBodyPattern(message).matched THEN SubjectBodyPattern(message)
    ELSE SubjectColonPattern(message)

\* C24: a reply to the question for the subject that carries subject and body, by
\* the markers or by the phrase "the subject is X, (the) body (message) is Y", is
\* split: X is kept as subject and Y as body, the body is no longer among the
\* missing fields, and the user is not asked for the body
C24_Split ==
    [][\A n \in NodeIds :
           LET ctx == llm[n].email_context
               new == llm'[n].email_context
           IN  (/\ op'.name = "receive_message"
                /\ op'.a = n
                /\ DictGet(ctx, "active", FALSE)
                /\ ctx.state = "collecting_info"
                /\ ctx.missing_info # <<>>
                /\ Head(ctx.missing_info) = "subject"
                /\ InList("body", ctx.missing_info)
                /\ BothParts(op'.b).matched
                /\ BothParts(op'.b).body # "") =>
                   /\ new.collected_info.subject = BothParts(op'.b).subject
                   /\ new.collected_info.body = BothParts(op'.b).body
                   /\ ~InList("body", new.missing_info)
                   /\ ~\E x \in 1..Len(stdout') :
                          Contains(stdout'[x], EmailQuestion("body", <<"body">>))]_vars

\* the same for the replies that carry one of the markers body:, message:, content:
C24_SplitByMarker ==
    [][\A n \in NodeIds :
           LET ctx == llm[n].email_context
               new == llm'[n].email_context
           IN  (/\ op'.name = "receive_message"
                /\ op'.a = n
                /\ DictGet(ctx, "active", FALSE)
                /\ ctx.state = "collecting_info"
                /\ ctx.missing_info # <<>>
                /\ Head(ctx.missing_info) = "subject"
                /\ InList("body", ctx.missing_info)
                /\ BothParts(op'.b).matched
                /\ BothParts(op'.b).body # ""
                /\ Contains(Lower(op'.b), "body:")) =>
                   /\ new.collected_info.subject = BothParts(op'.b).subject
                   /\ new.collected_info.body = BothParts(op'.b).body
                   /\ ~InList("body", new.missing_info)
                   /\ ~\E x \in 1..Len(stdout') :
                          Contains(stdout'[x], EmailQuestion("body", <<"body">>))]_vars

\* a reply with the markers has been split and the preview is shown
C24_Witness ==
    /\ op.name = "receive_message"
    /\ op.b = "Subject: Hi, Body: Hello"
    /\ DictGet(llm["ceo"].email_context, "active", FALSE)
    /\ llm["ceo"].email_context.collected_info.subject = "Hi"
    /\ llm["ceo"].email_context.collected_info.body = "Hello"
    /\ llm["ceo"].email_context.missing_info = <<>>
    /\ llm["ceo"].email_context.state = "confirming"

\* the answer to a plan request is no JSON text
Unparsed(reply) == reply.failed \/ ~reply.json.ok

\* C25: when the answer to a plan request cannot be parsed, plan_project reports
\* that no plan could be generated and records nothing: the project has the plan
\* and the participants it had before (none when it is new), no node has a new
\* meeting record, the bus has no new task and carries no message, and the
\* calendar service has no new event
C25_Unparsed ==
    [][(op'.name = "plan_project" /\ Unparsed(op'.c)) =>
           LET n == op'.a
               project_id == op'.b
               projects == llm[n].projects
           IN  /\ \E x \in 1..Len(stdout') :
                      Contains(stdout'[x], "Could not generate project plan")
               /\ DOMAIN llm'[n].projects = DOMAIN projects \cup {project_id}
               /\ \A p \in DOMAIN projects : llm'[n].projects[p] = projects[p]
               /\ project_id \notin DOMAIN projects =>
                      /\ llm'[n].projects[project_id].plan = <<>>
                      /\ llm'[n].projects[project_id].participants = {}
               /\ \A p \in NodeIds :
                      /\ llm'[p].calendar = llm[p].calendar
                      /\ p # n => llm'[p] = llm[p]
               /\ tasks' = tasks
               /\ network' = network
               /\ netlog' = <<>>
               /\ gcal' = gcal]_vars

\* a project that has a plan is planned again and the answer is no JSON text
C25_Witness ==
    /\ op.name = "plan_project"
    /\ Unparsed(op.c)
    /\ ~op.c.failed
    /\ op.c.text = "{plan}"
    /\ op.b \in DOMAIN llm[op.a].projects
    /\ llm[op.a].projects[op.b].plan # <<>>
    /\ "p2" \notin DOMAIN llm[op.a].projects
    /\ \E x \in 1..Len(stdout) : Contains(stdout[x], "Could not generate project plan")

Extractors ==
    {"_detect_calendar_intent", "_detect_send_email_intent", "_analyze_email_command",
     "_extract_meeting_details"}

\* what an extractor returns when the reasoning service fails or answers no JSON
SafeDefault(name) ==
    CASE name = "_detect_calendar_intent" ->
             [is_calendar_command |-> FALSE, action |-> None, missing_info |-> <<>>]
      [] name = "_detect_send_email_intent" ->
             [is_send_email |-> FALSE, recipient |-> "", subject |-> "", body |-> "",
              missing_info |-> <<>>]
      [] name = "_analyze_email_command" ->
             [action |-> "none", criteria |-> EmptyDict, summary_type |-> "concise"]
      [] name = "_extract_meeting_details" -> EmptyDict

\* C26: an extractor leaves the dialogs, the history, the calendar and the projects
\* of every node and the registry and the tasks of the bus as they were and sends
\* nothing; no exception leaves it; and when the reasoning service fails or answers
\* no JSON it returns its default, unless it has answered before asking because an
\* email dialog is open
C26_Extractors ==
    [][op'.name \in Extractors =>
           /\ llm' = llm
           /\ network' = network
           /\ nodes' = nodes
           /\ tasks' = tasks
           /\ gcal' = gcal
           /\ netlog' = <<>>
           /\ ~raised'
           /\ op'.b.failed =>
                  \/ op'.c = SafeDefault(op'.name)
                  \/ /\ Active(llm[op'.a].email_context)
                     /\ op'.name = "_detect_send_email_intent"
                     /\ op'.c = [is_send_email |-> FALSE]
                  \/ /\ Active(llm[op'.a].email_context)
                     /\ op'.name = "_analyze_email_command"
                     /\ op'.c = [action |-> "none"]]_vars

\* the reasoning service has failed the calendar intent extractor
C26_Witness ==
    /\ op.name = "_detect_calendar_intent"
    /\ op.b.failed
    /\ op.c = SafeDefault("_detect_calendar_intent")
    /\ \E x \in 1..Len(stdout) : Contains(stdout[x], "Error detecting intent")

\* the fields of a structured result that are absent, empty or null, in the order
\* recipient, subject, body
AbsentFields(result) ==
    SelectSeq(<<"recipient", "subject", "body">>,
              LAMBDA f : f \notin DOMAIN result \/ result[f] \in {"", None})

\* C27: the missing_info the send-email extractor returns lists, in the order
\* recipient, subject, body, exactly the fields that are absent, empty or null in
\* the structured result, whatever missing_info the reasoning service supplied
C27_MissingInfo ==
    [][(/\ op'.name = "_detect_send_email_intent"
        /\ ~op'.b.failed
        /\ ~Active(llm[op'.a].email_context)) =>
           /\ op'.c.missing_info = AbsentFields(op'.b.json)
           /\ \A f \in DOMAIN op'.b.json \ {"missing_info"} : op'.c[f] = op'.b.json[f]]_vars

\* the reasoning service named a field missing that it supplied, and left out
\* two that it did not
C27_Witness ==
    /\ op.name = "_detect_send_email_intent"
    /\ ~op.b.failed
    /\ DictGet(op.b.json, "missing_info", <<>>) = <<"recipient">>
    /\ op.c.missing_info = <<"subject", "body">>

\* the calls a node makes for the message received at i of a trace of calls,
\* before it or another node receives the next one
CallsFor(trace, i) ==
    {trace[k].fn : k \in {k \in (i + 1)..Len(trace) :
                              /\ trace[k].node = trace[i].node
                              /\ \A j \in (i + 1)..k : trace[j].fn # "receive_message"}}

QuickStage == {"list_tasks", "plan_project"}

DialogStage == {"_continue_meeting_creation", "_continue_email_composition"}

\* the handlers of the intents
IntentHandlers ==
    {"_start_meeting_creation", "_handle_meeting_creation", "_handle_meeting_cancellation",
     "_handle_list_meetings", "_handle_meeting_rescheduling", "_start_email_composition",
     "process_advanced_email_command"}

FallbackStage == {"conversation_history.append"}

\* the message received at i is taken by the first stage that applies to it, and
\* by no other
Staged(trace, i) ==
    /\ i < Len(trace)
    /\ trace[i + 1].node = trace[i].node
    /\ IF trace[i].sender = CliUser /\ QuickCommand(trace[i].arg)
       THEN /\ trace[i + 1].fn \in QuickStage
            /\ CallsFor(trace, i)
                   \cap (DialogStage \cup IntentDetection \cup FallbackStage) = {}
       ELSE IF trace[i].active # "none"
       THEN /\ trace[i + 1].fn = ContinueOf(trace[i].active)
            /\ CallsFor(trace, i)
                   \cap (QuickStage \cup IntentDetection \cup FallbackStage) = {}
       ELSE IF trace[i].sender = CliUser
       THEN /\ trace[i + 1].fn = "_detect_calendar_intent"
            /\ CallsFor(trace, i) \cap (QuickStage \cup DialogStage) = {}
            /\ (CallsFor(trace, i) \cap IntentHandlers = {})
                   <=> (FallbackStage \subseteq CallsFor(trace, i))
       ELSE /\ trace[i + 1].fn \in FallbackStage
            /\ CallsFor(trace, i) \cap (QuickStage \cup DialogStage \cup IntentDetection
                                     \cup IntentHandlers) = {}

\* C28: every message a node receives, from the command line user or in a nested
\* send, is taken by exactly one stage, the first that applies in the order quick
\* command, dialog continuation, intent detection with its handler, conversation;
\* and "tasks" of the command line user, received while a dialog is active, lists
\* the tasks and leaves both dialog contexts of the node as they were
C28_Stages ==
    [][/\ \A i \in 1..Len(calls') : calls'[i].fn = "receive_message" => Staged(calls', i)
       /\ (/\ op'.name = "receive_message"
           /\ op'.c = CliUser
           /\ Lower(Strip(op'.b)) = "tasks"
           /\ (Active(llm[op'.a].meeting_context) \/ Active(llm[op'.a].email_context))) =>
              /\ calls'[2].fn = "list_tasks"
              /\ llm'[op'.a].meeting_context = llm[op'.a].meeting_context
              /\ llm'[op'.a].email_context = llm[op'.a].email_context]_vars

\* the command line user has asked for the tasks while a dialog was collecting
C28_Witness ==
    /\ op.name = "receive_message"
    /\ op.b = " Tasks "
    /\ Len(calls) = 2
    /\ calls[1].active # "none"
    /\ calls[2].fn = "list_tasks"
    /\ \/ /\ Active(llm[op.a].meeting_context)
          /\ llm[op.a].meeting_context.missing_info # <<>>
       \/ /\ Active(llm[op.a].email_context)
          /\ llm[op.a].email_context.missing_info # <<>>

\* C29: the text of a command lists the tasks or plans the project when the
\* command line user sends it; from any other sender it does neither, and goes to
\* the stage that is next for the node: the continuation of the active dialog, and
\* the conversation when none is active
C29_CliOnly ==
    \A i \in 1..Len(calls) :
        (calls[i].fn = "receive_message" /\ calls[i].arg \in CommandTexts) =>
            /\ i < Len(calls)
            /\ calls[i + 1].node = calls[i].node
            /\ IF calls[i].sender = CliUser
               THEN calls[i + 1].fn = IF calls[i].arg = "plan p1 = Launch" THEN "plan_project"
                                      ELSE "list_tasks"
               ELSE /\ CallsFor(calls, i) \cap QuickStage = {}
                    /\ calls[i + 1].fn = IF calls[i].active # "none"
                                         THEN ContinueOf(calls[i].active)
                                         ELSE "conversation_history.append"

\* marketing has written ceo "tasks" while a dialog of ceo was collecting, and the
\* dialog took it
C29_Witness ==
    /\ op.name = "send_message"
    /\ op.b = "tasks"
    /\ Len(calls) >= 2
    /\ calls[1].fn = "receive_message"
    /\ calls[1].sender = "marketing"
    /\ calls[1].active # "none"
    /\ calls[2].fn \in DialogStage
    /\ \A j \in 1..Len(calls) : calls[j].fn \notin QuickStage

\* the messages nodes received from nodes during the latest call, in the order in
\* which their receive_message was invoked
Received ==
    LET from_nodes == SelectSeq(calls, LAMBDA c : c.fn = "receive_message"
                                                     /\ c.sender # CliUser)
    IN  [i \in 1..Len(from_nodes) |->
            [from |-> from_nodes[i].sender, to |-> from_nodes[i].node,
             content |-> from_nodes[i].arg]]

\* the sends a log tells of, in the order of the log: a node that receives a
\* message from a node logs it once more itself, first thing, so the entry of a
\* send to a registered node is followed by its copy; Unreadable stands in a log
\* that does not read this way
Unreadable == [from |-> None, to |-> None, content |-> None]

RECURSIVE SendsLogged(_)
SendsLogged(log) ==
    IF log = <<>> THEN <<>>
    ELSE IF Head(log).to \notin NodeIds THEN <<Head(log)>> \o SendsLogged(Tail(log))
    ELSE IF Len(log) >= 2 /\ log[2] = log[1]
    THEN <<Head(log)>> \o SendsLogged(Tail(Tail(log)))
    ELSE <<Unreadable>>

\* C30: the bus logs a send before it hands the message over: the log tells of the
\* sends in the order in which they were called, an outer send before the sends
\* made while its message was being received, each entry of a send to a registered
\* node standing before anything its receiver logs; and a send to an unknown
\* recipient is in the log too
C30_LoggedFirst ==
    /\ \A i \in 1..Len(SendsLogged(netlog)) : SendsLogged(netlog)[i] # Unreadable
    /\ SelectSeq(SendsLogged(netlog), LAMBDA e : e.to \in NodeIds) = Received
    /\ op.name = "send_message" =>
           /\ netlog # <<>>
           /\ netlog[1] = [from |-> op.c, to |-> op.a, content |-> op.b]

\* marketing wrote ceo, whose meeting dialog took the message as its last answer,
\* and ceo wrote marketing of the meeting while receiving
C30_Witness ==
    /\ op.name = "send_message"
    /\ Len(netlog) >= 4
    /\ netlog[1].from = "marketing" /\ netlog[1].to = "ceo"
    /\ netlog[3].from = "ceo" /\ netlog[3].to = "marketing"
    /\ Len(Received) >= 2

\* a send to a role that is no node has been logged
C30_WitnessUnknown ==
    /\ op.name = "send_message"
    /\ op.a = "design"
    /\ netlog = <<[from |-> op.c, to |-> "design", content |-> op.b]>>

\* the calls of receive_message on node n, in a trace, whose message went to
\* the continuation of the meeting dialog
Taken(trace, n) ==
    {i \in 1..(Len(trace) - 1) :
        /\ trace[i].fn = "receive_message" /\ trace[i].node = n
        /\ trace[i + 1].fn = "_continue_meeting_creation" /\ trace[i + 1].node = n}

\* the handlers a meeting dialog completes with
CompletionHandlers == {"_handle_meeting_creation", "_complete_meeting_rescheduling"}

\* the runs of a completion handler on node n in a trace
Completions(trace, n) ==
    {j \in 1..Len(trace) : trace[j].fn \in CompletionHandlers /\ trace[j].node = n}

\* the question for a detail is among the lines, with or without the hint
\* about the future
QuestionIn(lines, n, field) ==
    \E i \in 1..Len(lines), hint \in {"", " (please ensure it's a future date and time)"} :
        lines[i] = "[" \o n \o "] Response: " \o MeetingQuestion(field) \o hint

\* C31: in a meeting dialog started by _start_meeting_creation with the queue
\* f1..fk (k >= 1), the i-th reply the dialog consumes is stored in
\* collected_info under fi, the question for f(i+1) follows each of the first
\* k-1 replies, and the completion handler runs exactly once, in the dispatch
\* of the k-th reply and not before. Stated per step on the queue q left before
\* the step: the r-th reply consumed in the step is stored under q[r] and, when
\* q[r+1] exists, followed by its question; the handler runs once in a step
\* that consumes the last of q, after that reply, and not at all in any other
\* step; what the step has not consumed stays queued.
C31_FieldOrder ==
    [][\A n \in NodeIds :
          (/\ op'.name # "_start_meeting_creation"
           /\ Active(llm[n].meeting_context)
           /\ "initial_message" \in DOMAIN llm[n].meeting_context
           /\ llm[n].meeting_context.missing_info # <<>>) =>
              LET q == llm[n].meeting_context.missing_info
                  taken == Taken(calls', n)
                  Rank(i) == Cardinality({j \in taken : j <= i})
                  ctx == llm'[n].meeting_context
              IN  /\ \A i \in taken :
                         Rank(i) < Len(q) => QuestionIn(stdout', n, q[Rank(i) + 1])
                  /\ IF Cardinality(taken) < Len(q)
                     THEN /\ Completions(calls', n) = {}
                          /\ Active(ctx)
                          /\ ctx.missing_info = SubSeq(q, Cardinality(taken) + 1, Len(q))
                          /\ \A i \in taken : ctx.collected_info[q[Rank(i)]] = calls'[i].arg
                     ELSE /\ Cardinality(Completions(calls', n)) = 1
                          /\ \A j \in Completions(calls', n), i \in taken :
                                 Rank(i) = Len(q) => j > i
                          /\ "initial_message" \in DOMAIN ctx =>
                                 /\ ctx.missing_info = <<>>
                                 /\ \A i \in taken :
                                        Rank(i) <= Len(q) =>
                                            ctx.collected_info[q[Rank(i)]] = calls'[i].arg]_vars

\* the last of three replies completes a dialog started with three details to
\* ask for, and the handler has run
C31_Witness ==
    /\ op.name = "receive_message"
    /\ handled = 3
    /\ \E i \in Taken(calls, "ceo") : calls[i].arg = "08:00"
    /\ Completions(calls, "ceo") # {}
    /\ DOMAIN DictGet(llm["ceo"].meeting_context, "collected_info", EmptyDict)
           = {"title", "participants", "date"}

\* the deliveries to nodes in the trace of one call
Deliveries == {i \in 1..Len(calls) : calls[i].fn = "receive_message"}

\* a chain of deliveries is no longer than this: the first one, and for each
\* node one notification of each other node
MaxDeliveries == 1 + Cardinality(NodeIds) * (Cardinality(NodeIds) - 1)

\* C32: with LLMNodes only, every receive_message call returns when the
\* reasoning service and the collaborators return: the deliveries nested in it
\* are finitely many. Every call of the model is computed to its end; within
\* one, each node runs the completion handler of its meeting dialog at most
\* once, a message of a peer that no dialog consumes is put into the history
\* and makes the node call nothing else, and the deliveries number at most
\* MaxDeliveries.
C32_FiniteChain ==
    /\ \A n \in NodeIds : Cardinality(Completions(calls, n)) <= 1
    /\ Cardinality(Deliveries) <= MaxDeliveries
    /\ \A i \in Deliveries :
           (calls[i].sender # CliUser /\ calls[i].active = "none") =>
               /\ i < Len(calls)
               /\ calls[i + 1].fn = "conversation_history.append"
               /\ i + 2 <= Len(calls) => calls[i + 2].node # calls[i].node

\* ceo's reply completes its dialog, the notification completes marketing's,
\* and marketing's notification comes back to ceo inside ceo's handler
C32_Witness ==
    /\ op.name = "receive_message"
    /\ Cardinality(Deliveries) = 3
    /\ Completions(calls, "ceo") # {} /\ Completions(calls, "marketing") # {}
    /\ \E i \in Deliveries, j \in Completions(calls, "ceo") :
           i > j /\ calls[i].node = "ceo" /\ calls[i].sender = "marketing"

\* the flag 'active' of a dialog context as it is stored
Open(ctx) == "active" \in DOMAIN ctx /\ ctx.active = TRUE

\* C33: between the dispatches of messages, at most one dialog context of an
\* LLMNode is active: the meeting context (creation or reschedule) and the
\* email context are never active together.
C33_OneDialog ==
    \A n \in NodeIds : ~(Open(llm[n].meeting_context) /\ Open(llm[n].email_context))

\* a message arrived while the meeting dialog was active, the dialog consumed
\* it and is still the only one active
C33_Witness ==
    /\ Len(calls) >= 2
    /\ calls[1].fn = "receive_message" /\ calls[1].node = "ceo" /\ calls[1].active = "meeting"
    /\ calls[2].fn = "_continue_meeting_creation"
    /\ Open(llm["ceo"].meeting_context)
    /\ ~Open(llm["ceo"].email_context)

\* the replies stored in the meeting dialog of a node, by the detail they were
\* stored under
StoredUnder(n, field) ==
    {i \in 1..Len(calls) :
        /\ calls[i].fn = "collected_info.__setitem__"
        /\ calls[i].node = n
        /\ calls[i].arg = field}

\* C34: when two threads hand replies at the same time to a node whose meeting
\* dialog is active, each queued detail still receives exactly one reply and
\* the completion handler runs at most once for the dialog, so that one dialog
\* never makes two meetings.
C34_OneCompletion ==
    \A n \in CliNodes :
        /\ \A field \in {"title", "participants", "date", "time"} :
               Cardinality(StoredUnder(n, field)) <= 1
        /\ Cardinality(Completions(calls, n)) <= 1
        /\ Len(gcal) <= 1

\* the records of a calendar that carry no event of the external calendar
LocalOnly(calendar) == {i \in 1..Len(calendar) : "event_id" \notin DOMAIN calendar[i]}

\* the meetings scheduled without the external calendar in the trace of a call
FallbackRuns(trace) == {k \in 1..Len(trace) : trace[k].fn = "_fallback_schedule_meeting"}

\* C35: whatever meetings are created, moved and cancelled, no node's local
\* calendar holds two records of one meeting: at most one record per event_id,
\* and at most one local-only record per meeting scheduled, also when the
\* creator is among the participants. Per step: a call adds to a node's
\* calendar no more local-only records than it has scheduled local meetings.
C35_OneRecord ==
    [][\A n \in NodeIds :
          /\ \A i, j \in 1..Len(llm'[n].calendar) :
                 (/\ i # j
                  /\ "event_id" \in DOMAIN llm'[n].calendar[i]
                  /\ "event_id" \in DOMAIN llm'[n].calendar[j]) =>
                     llm'[n].calendar[i].event_id # llm'[n].calendar[j].event_id
          /\ Cardinality(LocalOnly(llm'[n].calendar)) - Cardinality(LocalOnly(llm[n].calendar))
                 <= Cardinality(FallbackRuns(calls'))]_vars

\* the calls that make or change a meeting
Creates == {"events.insert", "_fallback_schedule_meeting"}

\* C36: the response that ends a meeting dialog, "Meeting scheduled (or
\* rescheduled) successfully with all required information.", is printed only
\* in a dispatch whose handler made or updated a meeting; not when the handler
\* turned the request down for a missing title or participants, for a time
\* that is past or unreadable, or after an error of a collaborator.
C36_SuccessOnly ==
    \A n \in NodeIds :
        /\ Printed(n, "Response: Meeting scheduled successfully with all required information.")
               => \E k \in 1..Len(calls) : calls[k].node = n /\ calls[k].fn \in Creates
        /\ Printed(n, "Response: Meeting rescheduled successfully with all required information.")
               => \E k \in 1..Len(calls) : calls[k].node = n /\ calls[k].fn = "events.update"

\* C37: after any sequence of register and unregister calls on one bus, the
\* back-reference of a node object points to the bus if and only if the object
\* is bound to at least one id of the bus's registry.
C37_BackReference ==
    \A o \in Objs : network[o] = "bus" <=> \E i \in BusIds : nodes[i] = o

\* C38: whenever the email context of an LLMNode is active between the
\* dispatches of messages, either its state is collecting_info and its queue of
\* missing details is non-empty, or its state is confirming and the queue is
\* empty; no other combination is reachable.
C38_EmailStates ==
    \A n \in NodeIds :
        Open(llm[n].email_context) =>
            \/ /\ llm[n].email_context.state = "collecting_info"
               /\ llm[n].email_context.missing_info # <<>>
            \/ /\ llm[n].email_context.state = "confirming"
               /\ llm[n].email_context.missing_info = <<>>

\* one reply gave the subject and the body, the body left the queue with it,
\* and the dialog waits for the confirmation
C38_Witness ==
    /\ Len(calls) >= 2
    /\ calls[1].fn = "receive_message" /\ calls[1].active = "email"
    /\ calls[2].fn = "_continue_email_composition"
    /\ Open(llm["ceo"].email_context)
    /\ llm["ceo"].email_context.state = "confirming"
    /\ llm["ceo"].email_context.missing_info = <<>>
    /\ llm["ceo"].email_context.collected_info.body = "Hello"

\* C39: a message of a sender other than cli_user, delivered to an LLMNode
\* with no dialog active, appends exactly one entry to the node's conversation
\* history and does nothing else: no call of the reasoning service, no message
\* sent over the bus by the node, no reply, no change of the calendar, the
\* projects, the dialog contexts or the task list of the bus.
C39_PeerFrame ==
    [][\A r \in NodeIds :
          (/\ op'.name = "send_message" /\ op'.a = r
           /\ ~Open(llm[r].meeting_context) /\ ~Open(llm[r].email_context)) =>
              /\ llm' = [llm EXCEPT ![r].conversation_history =
                            Append(@, [role |-> "user",
                                       content |-> op'.c \o " says: " \o op'.b])]
              /\ Len(calls') = 2
              /\ calls'[1].fn = "receive_message" /\ calls'[1].node = r
              /\ calls'[2].fn = "conversation_history.append" /\ calls'[2].node = r
              /\ \A i \in 1..Len(netlog') : netlog'[i].from # r
              /\ \A i \in 1..Len(stdout') : ~Contains(stdout'[i], "[" \o r \o "] Response: ")
              /\ tasks' = tasks /\ gcal' = gcal /\ gmail' = <<>> /\ ~raised']_vars

\* marketing, with no dialog open, was sent the text of a command by ceo and
\* holds it as the one entry of its history
C39_Witness ==
    /\ op.name = "send_message" /\ op.a = "marketing" /\ op.b = "tasks"
    /\ Len(calls) = 2 /\ calls[1].active = "none"
    /\ llm["marketing"].conversation_history =
           <<[role |-> "user", content |-> "ceo says: tasks"]>>

====
